---- MODULE Spec2Model ----
(***************************************************************************)
(* Model of the meeting-slot optimisation engine of best-time-to-meet:     *)
(* window generation (internal/calendar), slot scanning, scoring, ranking  *)
(* and threshold filtering (internal/optimizer).                           *)
(*                                                                         *)
(* Instants are integers: minutes since Monday 2024-01-15 00:00 in the     *)
(* reference timezone (the --timezone location).  A *time.Location is a    *)
(* fixed offset in minutes from the reference timezone, or NoTZ for nil;   *)
(* daylight-saving transitions inside the modelled fortnight are not       *)
(* modelled.  float64 percentages are exact rationals [num, den] in        *)
(* lowest terms, compared by cross-multiplication; for availability lists  *)
(* of up to six attendees float64 orders and equates the percentages, the  *)
(* composite scores and whole-number ceilings exactly as the rationals do. *)
(***************************************************************************)
EXTENDS Integers, Sequences, FiniteSets, TLC

VARIABLES
    pc,               \* position in runFindMeetingTime / the function under test
    cfg,              \* the working-hours flags (optimizer.WorkingHoursConfig)
    startTime,        \* --start parsed in the reference timezone (midnight)
    endTime,          \* --end parsed in the reference timezone (midnight)
    potentialSlots,   \* result of calendar.GetWorkingHours
    availabilities,   \* []calendar.UserAvailability handed to the optimizer
    meetingDuration,  \* minutes
    maxSlots,         \* the maxSlots argument of FindOptimalMeetingSlots
    meetingSlots,     \* FindOptimalMeetingSlots' local slice before sort.Slice
    optimalSlots,     \* result of FindOptimalMeetingSlots
    maxConflicts,     \* the ceiling given to FilterSlotsByThreshold
    filteredSlots,    \* result of FilterSlotsByThreshold, then limited and re-sorted
    max_slots,        \* the --max-slots flag
    bestSlot,         \* the recommendation, << >> while there is none
    conflictGroups,   \* result of GroupSlotsByConflictLevel
    emails,           \* GetBusyTimesWithBatching: the emails requested
    batchSize,        \* GetBusyTimesWithBatching: the batch size in use
    batchStart,       \* GetBusyTimesWithBatching: the loop variable i, from 1
    allAvailabilities,\* GetBusyTimesWithBatching: the emails of the list returned
    emailMap,         \* GetBusyTimesWithBatching: emails already processed
    fetched,          \* the freebusy queries made so far and their outcomes
    err,              \* whether GetBusyTimesWithBatching returned an error
    legacySlots,      \* result of findOptimalMeetingSlotsLegacy
    location,         \* the --timezone location (loc), as its offset from UTC in minutes
    timezoneFailed,   \* emails whose calendar timezone could not be fetched
    regionOverrides,  \* holidays.Service: lower-case email -> region code
    tzRegionCache,    \* holidays.Service: timezone name -> region code
    lookups,          \* the lookupRegion calls made so far, with their outcomes
    directory,        \* the groups of the directory: address -> pages of members
    allEmails,        \* runFindMeetingTime: the addresses collected so far
    mailingListsClean,\* runFindMeetingTime: the mailing lists to resolve
    listIndex,        \* ResolveMemberEmails: the loop position in its emails
    resolvedEmails,   \* ResolveMemberEmails: its map memberEmails
    ctx,              \* the groupResolutionContext of the current getGroupMembers
    stack,            \* the calls of getGroupMembersRecursive in progress
    requests,         \* the Members.List calls of the current getGroupMembers
    resolutionErr,    \* the error getGroupMembers returned, << >> for nil
    emailList         \* runFindMeetingTime: the attendees after "Remove duplicates"

\* the state of the result display and of the calendar fetch
curatorVars == <<bestSlot, conflictGroups>>
batchVars == <<emails, batchSize, batchStart, allAvailabilities, emailMap,
               fetched, err>>

fetchVars == <<location, timezoneFailed>>
regionVars == <<regionOverrides, tzRegionCache, lookups>>
directoryVars == <<directory, allEmails, mailingListsClean, listIndex,
                   resolvedEmails, ctx, stack, requests, resolutionErr, emailList>>
restVars == <<legacySlots, fetchVars, regionVars, directoryVars>>

vars == <<pc, cfg, startTime, endTime, potentialSlots, availabilities,
          meetingDuration, maxSlots, meetingSlots, optimalSlots,
          maxConflicts, filteredSlots, max_slots, curatorVars, batchVars,
          restVars>>

-----------------------------------------------------------------------------
(* Bounds of the model *)

MaxRangeDays == 1      \* endTime is at most this many days after startTime
MaxAttendees == 3      \* length of the availability list
MaxSlotsFlag == 2      \* largest --max-slots flag
MaxPanel == 4          \* attendees of the slots given to the result display alone
MaxShown == 4          \* slots given to the result display alone
MaxEmails == 4         \* emails requested from GetBusyTimesWithBatching
MaxBatchSize == 3      \* largest batchSize argument
MaxFetched == 2        \* attendees of the run that fetches its availabilities
MaxLookups == 2        \* lookupRegion calls on one holidays.Service
MaxFailures == 1       \* Members.List calls of one getGroupMembers that a fault fails

-----------------------------------------------------------------------------
(* Clock and calendar arithmetic of Go's time package *)

MinutesPerHour == 60
HoursPerDay == 24
MinutesPerDay == HoursPerDay * MinutesPerHour

\* a *time.Location: nil, or the zone with a fixed offset from the reference zone
NoTZ == << >>
FixedZone(offset) == <<offset>>

\* time.Weekday values
Sunday == 0
Saturday == 6

\* index of the calendar day an instant falls on (day 0 is 2024-01-15)
DayIndex(t) == t \div MinutesPerDay

\* time.Date(y, m, d, 0, 0, 0, 0, loc) for the date of t
Midnight(t) == DayIndex(t) * MinutesPerDay

\* t.Weekday(): day 0 is a Monday
Weekday(t) == (DayIndex(t) + 1) % 7

\* lengths of the months of 2024, January first
MonthLengths == <<31, 29, 31, 30, 31, 30, 31, 31, 30, 31, 30, 31>>

RECURSIVE DayInMonth(_, _)
DayInMonth(doy, m) ==
    IF m > Len(MonthLengths) \/ doy < MonthLengths[m]
    THEN doy + 1
    ELSE DayInMonth(doy - MonthLengths[m], m + 1)

\* t.Day(): the day of the month; days before 2024-01-01 are in December 2023
Day(t) ==
    LET doy == DayIndex(t) + 14
    IN  IF doy < 0 THEN 31 + doy + 1 ELSE DayInMonth(doy, 1)

\* t.Hour() and t.Minute()
Hour(t) == (t % MinutesPerDay) \div MinutesPerHour
Minute(t) == t % MinutesPerHour

\* t.In(loc): the wall clock of instant t in loc, as minutes on the reference axis
In(t, loc) == t + loc[1]

TimeSlot(s, e) == [Start |-> s, End |-> e]

\* a Go string as far as trimming and case conversion can tell: its text in
\* lower case, whether its letters are "lower", "upper" or "mixed", and
\* whether white space surrounds it
String(text, case, padded) == [text |-> text, case |-> case, padded |-> padded]

Lower(text) == String(text, "lower", FALSE)
Upper(text) == String(text, "upper", FALSE)
Mixed(text) == String(text, "mixed", FALSE)
Padded(str) == [str EXCEPT !.padded = TRUE]

EmptyString == Lower("")

\* strings.ToLower, strings.ToUpper, strings.TrimSpace; the empty string and
\* white space alone have no letters
ToLower(str) == [str EXCEPT !.case = "lower"]
ToUpper(str) == [str EXCEPT !.case = IF str.text = "" THEN "lower" ELSE "upper"]
TrimSpace(str) == [str EXCEPT !.padded = FALSE]

\* ------------------------------------------------------------------------
\* internal/directory: mailing lists and their members
\* ------------------------------------------------------------------------

\* directory.go 12-15
normalizeEmail(email) == ToLower(TrimSpace(email))

\* a Go map as a function, m[key] = value
mapPut(m, key, value) == [k \in DOMAIN m \cup {key} |-> IF k = key THEN value ELSE m[k]]
mapValues(m) == {m[k] : k \in DOMAIN m}

\* an error of the Directory API stands for its message: the set of the
\* phrases categorizeError looks for that the message contains
DirectoryErrors == {{"404", "notFound"}, {"403", "Forbidden"}, {"400", "Bad Request"}, {"Domain not found", "domain"}, {"timeout"}}

\* directory.go 241-269
categorizeError(errStr) ==
    IF "404" \in errStr \/ "notFound" \in errStr
          \/ "Resource Not Found" \in errStr
    THEN "not_found"
    ELSE IF "403" \in errStr \/ "Forbidden" \in errStr
               \/ "Permission denied" \in errStr
    THEN "permission_denied"
    ELSE IF "400" \in errStr \/ "Bad Request" \in errStr
    THEN "bad_request"
    ELSE IF "Domain not found" \in errStr \/ "domain" \in errStr
    THEN "external_domain"
    ELSE "unknown"

\* directory.go 351-355
GroupResolutionError(groupEmail, errStr) == [Email |-> groupEmail, Err |-> errStr, ErrorType |-> categorizeError(errStr)]

\* directory.go 274-283
NewContext == [visitedGroups |-> {}, memberEmails |-> << >>, nestedGroups |-> << >>, maxDepth |-> 0, currentPath |-> << >>, failedGroups |-> << >>, circularRefs |-> << >>, hasPartialFailure |-> FALSE]

\* a member of a Members.List answer (admin.Member: Email and Type); a nil
\* entry of resp.Members is << >>
Member(email, type) == [Email |-> email, Type |-> type]
USER == Upper("user")
GROUP == Upper("group")

\* directory.go 310-319: the group is on the path of the groups being expanded
isCircular(path, normalizedGroup) == \E i \in 1..Len(path) : normalizeEmail(path[i]) = normalizedGroup

\* directory.go 322
alreadyVisited_Never(visitedGroups, normalizedGroup) == FALSE
alreadyVisited(visitedGroups, normalizedGroup) == normalizedGroup \in visitedGroups

\* directory.go 378
shouldAttemptGroup(memberType) == memberType \in {GROUP, Upper("customer"), EmptyString}

\* directory.go 387-388: the failed entry is no group, it is kept as an address
treatAsIndividual_Never(errorType) == FALSE
treatAsIndividual(errorType) == errorType \in {"not_found", "bad_request"}

-----------------------------------------------------------------------------
(* calendar.GetWorkingHours *)

\* MorningSlot without the lunchStart < dayEnd test and the clamp to dayEnd
MorningSlot_Unclamped(dayStart, dayEnd, lunchStart, lunchEnd) ==
    IF dayStart < lunchStart
    THEN <<TimeSlot(dayStart, lunchStart)>>
    ELSE << >>

\* the morning window of one day, lines 215-226
MorningSlot(dayStart, dayEnd, lunchStart, lunchEnd) ==
    IF dayStart < lunchStart /\ lunchStart < dayEnd
    THEN <<TimeSlot(dayStart, IF dayEnd < lunchStart THEN dayEnd ELSE lunchStart)>>
    ELSE << >>

\* AfternoonSlot starting at the start of lunch instead of its end
AfternoonSlot_FromLunchStart(dayStart, dayEnd, lunchStart, lunchEnd) ==
    IF lunchEnd < dayEnd /\ dayStart < lunchEnd
    THEN <<TimeSlot(IF dayStart > lunchStart THEN dayStart ELSE lunchStart, dayEnd)>>
    ELSE << >>

\* the afternoon window of one day, lines 228-239
AfternoonSlot(dayStart, dayEnd, lunchStart, lunchEnd) ==
    IF lunchEnd < dayEnd /\ dayStart < lunchEnd
    THEN <<TimeSlot(IF dayStart > lunchEnd THEN dayStart ELSE lunchEnd, dayEnd)>>
    ELSE << >>

\* the whole working day when lunch is outside working hours, lines 241-247
WholeDaySlot(dayStart, dayEnd, lunchStart, lunchEnd) ==
    IF lunchEnd < dayStart \/ lunchStart > dayEnd
    THEN <<TimeSlot(dayStart, dayEnd)>>
    ELSE << >>

\* the windows appended for the day of `current`, lines 209-247
DaySlots(current, startHour, endHour, lunchStartHour, lunchEndHour) ==
    LET dayStart == Midnight(current) + startHour * MinutesPerHour
        dayEnd == Midnight(current) + endHour * MinutesPerHour
        lunchStart == Midnight(current) + lunchStartHour * MinutesPerHour
        lunchEnd == Midnight(current) + lunchEndHour * MinutesPerHour
    IN  MorningSlot(dayStart, dayEnd, lunchStart, lunchEnd)
        \o AfternoonSlot(dayStart, dayEnd, lunchStart, lunchEnd)
        \o WholeDaySlot(dayStart, dayEnd, lunchStart, lunchEnd)

\* a day the loop skips, lines 203-207
SkippedDay(current, excludeWeekends) ==
    excludeWeekends /\ Weekday(current) \in {Saturday, Sunday}

RECURSIVE WorkingHoursLoop(_, _, _, _, _, _, _, _)
WorkingHoursLoop(current, endDate, startHour, endHour, lunchStartHour, lunchEndHour, excludeWeekends, slots) ==
    IF ~(current <= endDate)
    THEN slots
    ELSE WorkingHoursLoop(
            current + MinutesPerDay, endDate, startHour, endHour,
            lunchStartHour, lunchEndHour, excludeWeekends,
            IF SkippedDay(current, excludeWeekends)
            THEN slots
            ELSE slots \o DaySlots(current, startHour, endHour,
                                   lunchStartHour, lunchEndHour))

GetWorkingHours(startDate, endDate, startHour, endHour, lunchStartHour, lunchEndHour, excludeWeekends) ==
    WorkingHoursLoop(startDate, endDate, startHour, endHour, lunchStartHour,
                     lunchEndHour, excludeWeekends, << >>)

-----------------------------------------------------------------------------
(* float64 percentages as exact rationals *)

RECURSIVE GCD(_, _)
GCD(a, b) == IF b = 0 THEN a ELSE GCD(b, a % b)

Ratio(n, d) == [num |-> n \div GCD(n, d), den |-> d \div GCD(n, d)]

\* float64(count) / float64(total) * 100
Percent == 100
Percentage(count, total) == Ratio(Percent * count, total)

RatioLess(x, y) == x.num * y.den < y.num * x.den
RatioLeq(x, y) == x.num * y.den <= y.num * x.den

-----------------------------------------------------------------------------
(* optimizer: overlaps, isWithinWorkingHours *)

\* overlaps with closed intervals: touching endpoints count
overlaps_Closed(start1, end1, start2, end2) == start1 <= end2 /\ end1 >= start2

overlaps(start1, end1, start2, end2) == start1 < end2 /\ end1 > start2

isWithinWorkingHours(start, end, userTZ, config) ==
    LET startInUserTZ == In(start, userTZ)
        endInUserTZ == In(end, userTZ)
        startTotalMinutes == Hour(startInUserTZ) * MinutesPerHour + Minute(startInUserTZ)
        endTotalMinutes == Hour(endInUserTZ) * MinutesPerHour + Minute(endInUserTZ)
        workStartMinutes == config.StartHour * MinutesPerHour
        workEndMinutes == config.EndHour * MinutesPerHour
        lunchStartMinutes == config.LunchStartHour * MinutesPerHour
        lunchEndMinutes == config.LunchEndHour * MinutesPerHour
    IN  IF Day(startInUserTZ) # Day(endInUserTZ)
        THEN FALSE
        ELSE IF config.ExcludeWeekends
                /\ (Weekday(startInUserTZ) = Saturday \/ Weekday(startInUserTZ) = Sunday)
        THEN FALSE
        ELSE IF startTotalMinutes < workStartMinutes \/ endTotalMinutes > workEndMinutes
        THEN FALSE
        ELSE IF startTotalMinutes < lunchEndMinutes /\ endTotalMinutes > lunchStartMinutes
        THEN FALSE
        ELSE TRUE

-----------------------------------------------------------------------------
(* optimizer.FindOptimalMeetingSlots: the scan *)

\* the inner loop looking at the first busy slot only
hasConflict_FirstBusyOnly(currentStart, meetingEnd, userAvail) ==
    /\ Len(userAvail.BusySlots) > 0
    /\ overlaps(currentStart, meetingEnd,
                userAvail.BusySlots[1].Start, userAvail.BusySlots[1].End)

\* lines 121-128: the inner loop over one attendee's busy slots
hasConflict(currentStart, meetingEnd, userAvail) ==
    \E b \in 1..Len(userAvail.BusySlots) :
        overlaps(currentStart, meetingEnd,
                 userAvail.BusySlots[b].Start, userAvail.BusySlots[b].End)

\* an attendee without timezone taken as outside working hours
countsAsWorkingHours_NilOutside(currentStart, meetingEnd, userAvail, workingHours) ==
    IF userAvail.TimeZone # NoTZ
    THEN isWithinWorkingHours(currentStart, meetingEnd, userAvail.TimeZone, workingHours)
    ELSE FALSE

\* lines 135-145: an available attendee counted in workingHoursCount
countsAsWorkingHours(currentStart, meetingEnd, userAvail, workingHours) ==
    IF userAvail.TimeZone # NoTZ
    THEN isWithinWorkingHours(currentStart, meetingEnd, userAvail.TimeZone, workingHours)
    ELSE TRUE

EmailsOf(avails) == [i \in 1..Len(avails) |-> avails[i].Email]

\* conflictPercentage with the division done on integers
conflictPercentage_IntegerDivision(unavailable, avails) ==
    IF Len(avails) > 0
    THEN Ratio((Len(unavailable) \div Len(avails)) * Percent, 1)
    ELSE Ratio(0, 1)

\* lines 149-153
conflictPercentage(unavailable, avails) ==
    IF Len(avails) > 0
    THEN Percentage(Len(unavailable), Len(avails))
    ELSE Ratio(0, 1)

\* timezoneScore starting from 0 instead of 100
timezoneScore_ZeroWhenNone(workingHoursCount, available) ==
    IF Len(available) > 0
    THEN Percentage(workingHoursCount, Len(available))
    ELSE Ratio(0, 1)

\* lines 155-159
timezoneScore(workingHoursCount, available) ==
    IF Len(available) > 0
    THEN Percentage(workingHoursCount, Len(available))
    ELSE Ratio(Percent, 1)

\* lines 112-172: the MeetingSlot appended for one candidate
NewMeetingSlot(currentStart, meetingEnd, avails, workingHours) ==
    LET Busy(u) == hasConflict(currentStart, meetingEnd, u)
        Free(u) == ~hasConflict(currentStart, meetingEnd, u)
        unavailable == EmailsOf(SelectSeq(avails, Busy))
        availableUsers == SelectSeq(avails, Free)
        available == EmailsOf(availableUsers)
        InHours(u) == countsAsWorkingHours(currentStart, meetingEnd, u, workingHours)
        workingHoursCount == Len(SelectSeq(availableUsers, InHours))
        outsideWorkingHours ==
            {availableUsers[i].Email : i \in
                {j \in 1..Len(availableUsers) : ~InHours(availableUsers[j])}}
    IN  [TimeSlot |-> TimeSlot(currentStart, meetingEnd),
         UnavailableCount |-> Len(unavailable),
         UnavailableEmails |-> unavailable,
         AvailableEmails |-> available,
         ConflictPercentage |-> conflictPercentage(unavailable, avails),
         TimeZoneScore |-> timezoneScore(workingHoursCount, available),
         OutsideWorkingHours |-> outsideWorkingHours]

\* line 175: the scan moves in 30-minute increments
Stride == 30

\* the loop condition without the Equal case
fitsBefore_Strict(currentStart, duration, slotEnd) ==
    currentStart + duration < slotEnd

\* line 111: the loop condition of the scan of one window
fitsBefore(currentStart, duration, slotEnd) ==
    currentStart + duration < slotEnd \/ currentStart + duration = slotEnd

\* lines 110-176: the scan of one window
RECURSIVE ScanWindow(_, _, _, _, _, _)
ScanWindow(currentStart, slotEnd, duration, avails, workingHours, acc) ==
    IF fitsBefore(currentStart, duration, slotEnd)
    THEN ScanWindow(currentStart + Stride, slotEnd, duration, avails, workingHours,
                    Append(acc, NewMeetingSlot(currentStart, currentStart + duration,
                                               avails, workingHours)))
    ELSE acc

\* lines 105-177: the scan of all windows, in order
RECURSIVE ScanSlots(_, _, _, _, _, _)
ScanSlots(slots, i, duration, avails, workingHours, acc) ==
    IF i > Len(slots)
    THEN acc
    ELSE ScanSlots(slots, i + 1, duration, avails, workingHours,
                   ScanWindow(slots[i].Start, slots[i].End, duration, avails,
                              workingHours, acc))

-----------------------------------------------------------------------------
(* optimizer.FindOptimalMeetingSlots: ranking and truncation *)

\* line 183: 70% conflicts, 30% timezone compatibility, as tenths
ConflictWeight == 7
TimezoneWeight == 3

\* ConflictPercentage*0.7 + (100-TimeZoneScore)*0.3, times ten, as a fraction
\* (not reduced: scores are only compared)
combinedScore(m) ==
    [num |-> ConflictWeight * m.ConflictPercentage.num * m.TimeZoneScore.den
                + TimezoneWeight
                    * (Percent * m.TimeZoneScore.den - m.TimeZoneScore.num)
                    * m.ConflictPercentage.den,
     den |-> m.ConflictPercentage.den * m.TimeZoneScore.den]

\* slotLess without the tie-break on the start time
slotLess_ScoreOnly(mi, mj) == RatioLess(combinedScore(mi), combinedScore(mj))

\* slotLess preferring later times among equal scores
slotLess_LaterFirst(mi, mj) ==
    LET scoreI == combinedScore(mi)
        scoreJ == combinedScore(mj)
    IN  IF scoreI.num * scoreJ.den # scoreJ.num * scoreI.den
        THEN RatioLess(scoreI, scoreJ)
        ELSE mi.TimeSlot.Start > mj.TimeSlot.Start

\* lines 180-191: the less function given to sort.Slice
slotLess(mi, mj) ==
    LET scoreI == combinedScore(mi)
        scoreJ == combinedScore(mj)
    IN  IF scoreI.num * scoreJ.den # scoreJ.num * scoreI.den
        THEN RatioLess(scoreI, scoreJ)
        ELSE mi.TimeSlot.Start < mj.TimeSlot.Start

\* sort.Slice.  It is not stable, but two slots that slotLess leaves unordered
\* have the same start and therefore, scanned with the same duration from the
\* same availabilities, are the same record: every order sort.Slice may return
\* is the same sequence of values.
RECURSIVE InsertSlot(_, _)
InsertSlot(sorted, m) ==
    IF sorted = << >> THEN <<m>>
    ELSE IF slotLess(m, Head(sorted)) THEN <<m>> \o sorted
    ELSE <<Head(sorted)>> \o InsertSlot(Tail(sorted), m)

RECURSIVE SortSlots(_, _)
SortSlots(slots, k) ==
    IF k = 0 THEN << >> ELSE InsertSlot(SortSlots(slots, k - 1), slots[k])

\* lines 193-197
topN(sorted, n) == IF Len(sorted) > n THEN SubSeq(sorted, 1, n) ELSE sorted

\* lines 179-197: sort, then return only the top n slots
rankAndTruncate(scanned, n) == topN(SortSlots(scanned, Len(scanned)), n)

-----------------------------------------------------------------------------
(* optimizer.findOptimalMeetingSlotsLegacy *)

\* lines 37-72: the MeetingSlot appended for one candidate; TimeZoneScore and
\* OutsideWorkingHours keep their zero values
NewMeetingSlotLegacy(currentStart, meetingEnd, avails) ==
    LET Busy(u) == hasConflict(currentStart, meetingEnd, u)
        Free(u) == ~hasConflict(currentStart, meetingEnd, u)
        unavailable == EmailsOf(SelectSeq(avails, Busy))
        available == EmailsOf(SelectSeq(avails, Free))
    IN  [TimeSlot |-> TimeSlot(currentStart, meetingEnd),
         UnavailableCount |-> Len(unavailable),
         UnavailableEmails |-> unavailable,
         AvailableEmails |-> available,
         ConflictPercentage |-> conflictPercentage(unavailable, avails),
         TimeZoneScore |-> Ratio(0, 1),
         OutsideWorkingHours |-> {}]

\* lines 33-77: the scan of one window
RECURSIVE ScanWindowLegacy(_, _, _, _, _)
ScanWindowLegacy(currentStart, slotEnd, duration, avails, acc) ==
    IF fitsBefore(currentStart, duration, slotEnd)
    THEN ScanWindowLegacy(currentStart + Stride, slotEnd, duration, avails,
                          Append(acc, NewMeetingSlotLegacy(currentStart,
                                                           currentStart + duration,
                                                           avails)))
    ELSE acc

\* lines 30-78: the scan of all windows, in order
RECURSIVE ScanSlotsLegacy(_, _, _, _, _)
ScanSlotsLegacy(slots, i, duration, avails, acc) ==
    IF i > Len(slots)
    THEN acc
    ELSE ScanSlotsLegacy(slots, i + 1, duration, avails,
                         ScanWindowLegacy(slots[i].Start, slots[i].End, duration,
                                          avails, acc))

\* legacyLess with more conflicts first
legacyLess_MoreConflictsFirst(mi, mj) ==
    IF mi.UnavailableCount # mj.UnavailableCount
    THEN mi.UnavailableCount > mj.UnavailableCount
    ELSE mi.TimeSlot.Start < mj.TimeSlot.Start

\* lines 81-88: the less function given to sort.Slice
legacyLess(mi, mj) ==
    IF mi.UnavailableCount # mj.UnavailableCount
    THEN mi.UnavailableCount < mj.UnavailableCount
    ELSE mi.TimeSlot.Start < mj.TimeSlot.Start

\* sort.Slice; slots that legacyLess leaves unordered have the same start and
\* are the same record
RECURSIVE InsertSlotLegacy(_, _)
InsertSlotLegacy(sorted, m) ==
    IF sorted = << >> THEN <<m>>
    ELSE IF legacyLess(m, Head(sorted)) THEN <<m>> \o sorted
    ELSE <<Head(sorted)>> \o InsertSlotLegacy(Tail(sorted), m)

RECURSIVE SortSlotsLegacy(_, _)
SortSlotsLegacy(slots, k) ==
    IF k = 0 THEN << >>
    ELSE InsertSlotLegacy(SortSlotsLegacy(slots, k - 1), slots[k])

\* lines 21-95
findOptimalMeetingSlotsLegacy(avails, slots, duration, n) ==
    LET scanned == ScanSlotsLegacy(slots, 1, duration, avails, << >>)
    IN  topN(SortSlotsLegacy(scanned, Len(scanned)), n)

-----------------------------------------------------------------------------
(* optimizer.FilterSlotsByThreshold *)

\* the threshold test with < instead of <=
keepsSlot_Strict(slot, maxConflictPercentage) ==
    RatioLess(slot.ConflictPercentage, Ratio(maxConflictPercentage, 1))

\* line 261
keepsSlot(slot, maxConflictPercentage) ==
    RatioLeq(slot.ConflictPercentage, Ratio(maxConflictPercentage, 1))

FilterSlotsByThreshold(slots, maxConflictPercentage) ==
    LET Keep(slot) == keepsSlot(slot, maxConflictPercentage)
    IN  SelectSeq(slots, Keep)

-----------------------------------------------------------------------------
(* cmd/root.go: count limit and chronological display order *)

\* the limit keeping one slot more than --max-slots
limitSlots_OneMore(slots, n) ==
    IF Len(slots) > n THEN SubSeq(slots, 1, n + 1) ELSE slots

\* lines 402-405
limitSlots(slots, n) == IF Len(slots) > n THEN SubSeq(slots, 1, n) ELSE slots

\* the display order latest first
startsBefore_Descending(mi, mj) == mi.TimeSlot.Start > mj.TimeSlot.Start

\* line 409: the less function of the final sort.Slice
startsBefore(mi, mj) == mi.TimeSlot.Start < mj.TimeSlot.Start

\* lines 408-410, sort.Slice again (see SortSlots on its stability)
RECURSIVE InsertByStart(_, _)
InsertByStart(sorted, m) ==
    IF sorted = << >> THEN <<m>>
    ELSE IF startsBefore(m, Head(sorted)) THEN <<m>> \o sorted
    ELSE <<Head(sorted)>> \o InsertByStart(Tail(sorted), m)

RECURSIVE SortByStart(_, _)
SortByStart(slots, k) ==
    IF k = 0 THEN << >> ELSE InsertByStart(SortByStart(slots, k - 1), slots[k])

-----------------------------------------------------------------------------
(* cmd/root.go: the recommendation; optimizer.GroupSlotsByConflictLevel *)

\* MeetingSlot.ConflictsByType is read by cmd/root.go but neither declared nor
\* filled by internal/optimizer/optimizer.go; it is taken from the
\* specification: calendar = the unavailable emails, working_hours = the
\* available emails outside working hours
ConflictsByType(slot) ==
    [calendar |-> {slot.UnavailableEmails[i] : i \in 1..Len(slot.UnavailableEmails)},
     working_hours |-> slot.OutsideWorkingHours]

\* the comparison without the working-hours tie-break
replacesBest_NoWorkingHours(slot, best) ==
    IF RatioLess(slot.ConflictPercentage, best.ConflictPercentage) THEN TRUE
    ELSE IF slot.ConflictPercentage = best.ConflictPercentage
         THEN slot.TimeSlot.Start < best.TimeSlot.Start
         ELSE FALSE

\* lines 621-636 and 814-827: whether the loop replaces bestSlot by slot
replacesBest(slot, best) ==
    LET currentWorkingHoursConflicts == Cardinality(ConflictsByType(slot).working_hours)
        bestWorkingHoursConflicts == Cardinality(ConflictsByType(best).working_hours)
    IN  IF RatioLess(slot.ConflictPercentage, best.ConflictPercentage) THEN TRUE
        ELSE IF slot.ConflictPercentage = best.ConflictPercentage
             THEN IF currentWorkingHoursConflicts < bestWorkingHoursConflicts THEN TRUE
                  ELSE IF currentWorkingHoursConflicts = bestWorkingHoursConflicts
                       THEN slot.TimeSlot.Start < best.TimeSlot.Start
                       ELSE FALSE
             ELSE FALSE

\* lines 618-637 and 813-828: the loop over the displayed slots
RECURSIVE findBestSlot(_, _, _)
findBestSlot(slots, i, best) ==
    IF i > Len(slots) THEN best
    ELSE findBestSlot(slots, i + 1,
                      IF replacesBest(slots[i], best) THEN slots[i] ELSE best)

\* lines 616-617 and 811-812: bestSlot starts as the first slot; << >> stands
\* for the absent recommendation
recommendation(slots) ==
    IF Len(slots) > 0 THEN <<findBestSlot(slots, 1, slots[1])>> ELSE << >>

ConflictLevels ==
    {"no-conflicts", "low-conflicts", "med-conflicts", "high-conflicts", "very-high"}

\* the switch with the bounds of the bands excluded
conflictLevel_Exclusive(slot) ==
    LET x == slot.ConflictPercentage
    IN  IF x.num = 0 THEN "no-conflicts"
        ELSE IF RatioLess(x, Ratio(25, 1)) THEN "low-conflicts"
        ELSE IF RatioLess(x, Ratio(50, 1)) THEN "med-conflicts"
        ELSE IF RatioLess(x, Ratio(75, 1)) THEN "high-conflicts"
        ELSE "very-high"

\* optimizer.go 291-302: the switch
conflictLevel(slot) ==
    LET x == slot.ConflictPercentage
    IN  IF x.num = 0 THEN "no-conflicts"
        ELSE IF RatioLeq(x, Ratio(25, 1)) THEN "low-conflicts"
        ELSE IF RatioLeq(x, Ratio(50, 1)) THEN "med-conflicts"
        ELSE IF RatioLeq(x, Ratio(75, 1)) THEN "high-conflicts"
        ELSE "very-high"

\* optimizer.go 281-306
GroupSlotsByConflictLevel(slots) ==
    [g \in ConflictLevels |->
        LET InGroup(slot) == conflictLevel(slot) = g
        IN  SelectSeq(slots, InGroup)]

-----------------------------------------------------------------------------
(* Inputs *)

WorkingHoursConfig(sh, eh, ls, le, ex) ==
    [StartHour |-> sh, EndHour |-> eh, LunchStartHour |-> ls,
     LunchEndHour |-> le, ExcludeWeekends |-> ex]

\* the hour flags are plain ints and are not validated (cmd/root.go 355-372)
HourValues == {0, 8, 9, 12, 13, 17, 18, 24}
LunchHourValues == HourValues \cup {26}

AllConfigs ==
    {WorkingHoursConfig(sh, eh, ls, le, ex) :
        sh \in HourValues, eh \in HourValues,
        ls \in LunchHourValues, le \in LunchHourValues, ex \in BOOLEAN}

\* first days of the search range: Monday 2024-01-15 and Friday 2024-01-19
StartDays == {0, 4}

NoSlots == << >>

\* the state of the functions the run has not called yet
RestInit ==
    /\ legacySlots = NoSlots
    /\ location = 0
    /\ timezoneFailed = {}
    /\ regionOverrides = << >>
    /\ tzRegionCache = << >>
    /\ lookups = << >>
    /\ directory = << >>
    /\ allEmails = << >>
    /\ mailingListsClean = << >>
    /\ listIndex = 1
    /\ resolvedEmails = << >>
    /\ ctx = NewContext
    /\ stack = << >>
    /\ requests = << >>
    /\ resolutionErr = << >>
    /\ emailList = << >>

Init ==
    /\ pc = "start"
    /\ cfg = WorkingHoursConfig(0, 0, 0, 0, FALSE)
    /\ startTime = 0
    /\ endTime = 0
    /\ potentialSlots = NoSlots
    /\ availabilities = << >>
    /\ meetingDuration = 0
    /\ maxSlots = 0
    /\ meetingSlots = NoSlots
    /\ optimalSlots = NoSlots
    /\ maxConflicts = 0
    /\ filteredSlots = NoSlots
    /\ max_slots = 0
    /\ bestSlot = << >>
    /\ conflictGroups = [g \in ConflictLevels |-> NoSlots]
    /\ emails = << >>
    /\ batchSize = 0
    /\ batchStart = 1
    /\ allAvailabilities = << >>
    /\ emailMap = {}
    /\ fetched = << >>
    /\ err = FALSE
    /\ RestInit

\* cmd/root.go 298-307 and 354-372: parse the dates and flags, generate windows
RunGetWorkingHours(configs, ranges) ==
    /\ pc = "start"
    /\ \E c \in configs, r \in ranges :
          /\ cfg' = c
          /\ startTime' = r[1] * MinutesPerDay
          /\ endTime' = (r[1] + r[2]) * MinutesPerDay
          /\ potentialSlots' =
                GetWorkingHours(r[1] * MinutesPerDay, (r[1] + r[2]) * MinutesPerDay,
                                c.StartHour, c.EndHour, c.LunchStartHour,
                                c.LunchEndHour, c.ExcludeWeekends)
    /\ pc' = "windows"
    /\ UNCHANGED <<availabilities, meetingDuration, maxSlots, meetingSlots,
                   optimalSlots, maxConflicts, filteredSlots, max_slots,
                   curatorVars, batchVars,
                   restVars>>

\* the configurations the whole pipeline is run with: a plain day; an evening
\* that ends at midnight, lunch outside it; lunch touching the end of the day;
\* an inverted lunch (overlapping windows); an early morning with an empty lunch
PipelineConfigs ==
    {WorkingHoursConfig(9, 17, 12, 13, TRUE),
     WorkingHoursConfig(18, 24, 12, 13, TRUE),
     WorkingHoursConfig(9, 17, 17, 18, FALSE),
     WorkingHoursConfig(9, 13, 12, 10, FALSE),
     WorkingHoursConfig(0, 5, 2, 2, TRUE)}

\* the search ranges of the whole pipeline, <<first day, further days>>:
\* Monday alone, and Friday with the days after it
PipelineRanges == {<<0, 0>>} \cup {<<4, n>> : n \in 0..MaxRangeDays}

EmailNames == <<"a@x.org", "b@x.org", "c@x.org", "d@x.org", "e@x.org">>

\* what the calendar service may report for one attendee: busy slots, as
\* offsets from startTime, and the calendar's timezone
ProfileList(start) ==
    <<[BusySlots |-> << >>, TimeZone |-> NoTZ],
      [BusySlots |-> <<TimeSlot(start + 600, start + 660)>>, TimeZone |-> FixedZone(0)],
      [BusySlots |-> <<TimeSlot(start + 900, start + 945),
                       TimeSlot(start + 600, start + 660)>>,
       TimeZone |-> FixedZone(0 - 90)],
      [BusySlots |-> <<TimeSlot(start + 570, start + 660),
                       TimeSlot(start + 1080, start + 1110)>>,
       TimeZone |-> NoTZ]>>

Profiles(start) == {ProfileList(start)[k] : k \in 1..Len(ProfileList(start))}

\* the ways to give n attendees a profile each.  The optimizer treats emails
\* as opaque names, so lists that differ only in which attendee has which
\* profile behave alike up to the names: one list stands for each of them,
\* the one whose profiles follow the order of ProfileList
ProfileChoices(start, n) ==
    {f \in [1..n -> 1..Len(ProfileList(start))] :
        \A i, j \in 1..n : i < j => f[i] <= f[j]}

AvailabilityLists(start) ==
    UNION {
        {[i \in 1..n |-> [Email |-> EmailNames[i],
                          BusySlots |-> ProfileList(start)[f[i]].BusySlots,
                          TimeZone |-> ProfileList(start)[f[i]].TimeZone]] :
            f \in ProfileChoices(start, n)} :
        n \in 0..MaxAttendees}

\* --duration, minutes
Durations == {45, 60, 210, 240}

\* --max-conflicts, percent
Ceilings == {0, 34, 50}

\* cmd/root.go 374-381: the optimizer is asked for three times --max-slots
SlotsFactor == 3

\* cmd/root.go 309 and 331-381, with the availability lists, the --duration
\* values and the --max-slots values the run may meet
FindOptimalMeetingSlotsStep(lists, durations, flags) ==
    /\ pc = "windows"
    /\ \E avails \in lists, d \in durations, n \in flags :
          /\ availabilities' = avails
          /\ meetingDuration' = d
          /\ max_slots' = n
          /\ maxSlots' = n * SlotsFactor
          /\ meetingSlots' = ScanSlots(potentialSlots, 1, d, avails, cfg, << >>)
          /\ optimalSlots' = rankAndTruncate(meetingSlots', n * SlotsFactor)
    /\ pc' = "ranked"
    /\ UNCHANGED <<cfg, startTime, endTime, potentialSlots, maxConflicts,
                   filteredSlots, curatorVars, batchVars,
                   restVars>>

RunFindOptimalMeetingSlots ==
    FindOptimalMeetingSlotsStep(AvailabilityLists(startTime), Durations,
                                0..MaxSlotsFlag)

\* cmd/root.go 394-395
RunFilterSlotsByThreshold ==
    /\ pc = "ranked"
    /\ \E c \in Ceilings :
          /\ maxConflicts' = c
          /\ filteredSlots' = FilterSlotsByThreshold(optimalSlots, c)
    /\ pc' = "filtered"
    /\ UNCHANGED <<cfg, startTime, endTime, potentialSlots, availabilities,
                   meetingDuration, maxSlots, meetingSlots, optimalSlots,
                   max_slots, curatorVars, batchVars,
                   restVars>>

\* cmd/root.go 402-410: limit to --max-slots, then sort chronologically
RunLimitAndSort ==
    /\ pc = "filtered"
    /\ filteredSlots' =
          LET limited == limitSlots(filteredSlots, max_slots)
          IN  SortByStart(limited, Len(limited))
    /\ pc' = "curated"
    /\ UNCHANGED <<cfg, startTime, endTime, potentialSlots, availabilities,
                   meetingDuration, maxSlots, meetingSlots, optimalSlots,
                   maxConflicts, max_slots, curatorVars, batchVars,
                   restVars>>

\* cmd/root.go 412-441: nothing to show, "No suitable meeting times found";
\* otherwise 443-447 and outputJSON (715, 810-846), or the text display with
\* the same recommendation (614-637)
RunDisplayResults ==
    /\ pc = "curated"
    /\ IF Len(filteredSlots) = 0
       THEN /\ pc' = "empty"
            /\ UNCHANGED curatorVars
       ELSE /\ pc' = "output"
            /\ conflictGroups' = GroupSlotsByConflictLevel(filteredSlots)
            /\ bestSlot' = recommendation(filteredSlots)
    /\ UNCHANGED <<cfg, startTime, endTime, potentialSlots, availabilities,
                   meetingDuration, maxSlots, meetingSlots, optimalSlots,
                   maxConflicts, filteredSlots, max_slots, batchVars,
                   restVars>>

Next ==
    \/ RunGetWorkingHours(PipelineConfigs, PipelineRanges)
    \/ RunFindOptimalMeetingSlots
    \/ RunFilterSlotsByThreshold
    \/ RunLimitAndSort
    \/ RunDisplayResults

Spec == Init /\ [][Next]_vars

\* optimizer.go 21-95: the legacy ranking of the inputs FindOptimalMeetingSlots
\* was given
RunFindOptimalMeetingSlotsLegacy ==
    /\ pc = "ranked"
    /\ legacySlots' = findOptimalMeetingSlotsLegacy(availabilities, potentialSlots,
                                                    meetingDuration, maxSlots)
    /\ pc' = "compared"
    /\ UNCHANGED <<cfg, startTime, endTime, potentialSlots, availabilities,
                   meetingDuration, maxSlots, meetingSlots, optimalSlots,
                   maxConflicts, filteredSlots, max_slots, curatorVars, batchVars,
                   fetchVars, regionVars, directoryVars>>

NextLegacy ==
    \/ RunGetWorkingHours(PipelineConfigs, PipelineRanges)
    \/ RunFindOptimalMeetingSlots
    \/ RunFindOptimalMeetingSlotsLegacy

SpecLegacy == Init /\ [][NextLegacy]_vars

\* window generation alone, over every combination of the hour flags
AllRanges == StartDays \X (0..MaxRangeDays)

NextWH == RunGetWorkingHours(AllConfigs, AllRanges)

SpecWH == Init /\ [][NextWH]_vars

-----------------------------------------------------------------------------
(* The pipeline with flag values a caller may pass: cmd/root.go hands the
   flags to GetWorkingHours and FindOptimalMeetingSlots as they are *)

\* hours in order, hours inverted, an end hour after midnight
UncheckedConfigs ==
    {WorkingHoursConfig(9, 17, 12, 13, TRUE),
     WorkingHoursConfig(17, 9, 12, 13, TRUE),
     WorkingHoursConfig(9, 26, 12, 13, TRUE)}

\* <<first day, further days>>: Monday alone, and Tuesday back to Monday
UncheckedRanges == {<<0, 0>>, <<1, 0 - 1>>}

\* --duration: an hour, nothing, and half an hour back
UncheckedDurations == {60, 0, 0 - 30}

UncheckedLists(start) == {avails \in AvailabilityLists(start) : Len(avails) <= 1}

NextUnchecked ==
    \/ RunGetWorkingHours(UncheckedConfigs, UncheckedRanges)
    \/ FindOptimalMeetingSlotsStep(UncheckedLists(startTime), UncheckedDurations,
                                   1..MaxSlotsFlag)
    \/ RunFilterSlotsByThreshold
    \/ RunLimitAndSort
    \/ RunDisplayResults

SpecUnchecked == Init /\ [][NextUnchecked]_vars

-----------------------------------------------------------------------------
(* The pipeline for a panel of remote attendees, free all day in a timezone
   an hour and a half behind the reference, and local attendees who are busy
   from 10:30 to 17:00 *)
RemoteProfile(start) == [BusySlots |-> << >>, TimeZone |-> FixedZone(0 - 90)]

LocalBusyProfile(start) ==
    [BusySlots |-> <<TimeSlot(start + 630, start + 1020)>>, TimeZone |-> FixedZone(0)]

\* the first k attendees are remote, the others local
PanelLists(start) ==
    {[i \in 1..n |-> [Email |-> EmailNames[i],
                      BusySlots |-> IF i <= k
                                    THEN RemoteProfile(start).BusySlots
                                    ELSE LocalBusyProfile(start).BusySlots,
                      TimeZone |-> IF i <= k
                                   THEN RemoteProfile(start).TimeZone
                                   ELSE LocalBusyProfile(start).TimeZone]] :
        n \in 0..MaxPanel, k \in 0..MaxPanel}

PanelConfigs == {WorkingHoursConfig(9, 17, 12, 13, TRUE)}

PanelDurations == {45, 60}

NextPanel ==
    \/ RunGetWorkingHours(PanelConfigs, PipelineRanges)
    \/ FindOptimalMeetingSlotsStep(PanelLists(startTime), PanelDurations,
                                   0..MaxSlotsFlag)
    \/ RunFilterSlotsByThreshold
    \/ RunLimitAndSort
    \/ RunDisplayResults

SpecPanel == Init /\ [][NextPanel]_vars

-----------------------------------------------------------------------------
(* The result display alone (recommendation and conflict bands), applied to
   lists of displayed slots that need not come from one ranking *)

\* the start times, minutes after startTime, of the slots displayed: slots of
\* one hour inside the windows 09:00-12:00 and 13:00-17:00
CuratorStarts == {540, 600, 780, 900, 960}

\* the displayed lists are in chronological order (cmd/root.go 408-410)
CuratorStartLists ==
    UNION {{f \in [1..n -> CuratorStarts] :
                \A i, j \in 1..n : i < j => f[i] <= f[j]} : n \in 0..MaxShown}

CuratorLists(start) ==
    UNION {
        {[i \in 1..n |-> [Email |-> EmailNames[i],
                          BusySlots |-> ProfileList(start)[f[i]].BusySlots,
                          TimeZone |-> ProfileList(start)[f[i]].TimeZone]] :
            f \in ProfileChoices(start, n)} :
        n \in 0..MaxPanel}

CuratorInit ==
    /\ pc = "curated"
    /\ cfg = WorkingHoursConfig(9, 17, 12, 13, TRUE)
    /\ startTime = 0
    /\ endTime = 0
    /\ potentialSlots = NoSlots
    /\ availabilities \in CuratorLists(0)
    /\ meetingDuration = MinutesPerHour
    /\ maxSlots = 0
    /\ meetingSlots = NoSlots
    /\ optimalSlots = NoSlots
    /\ maxConflicts = Percent
    /\ \E starts \in CuratorStartLists :
          filteredSlots =
             [k \in 1..Len(starts) |->
                 NewMeetingSlot(starts[k], starts[k] + MinutesPerHour,
                                availabilities, cfg)]
    /\ max_slots = MaxShown
    /\ bestSlot = << >>
    /\ conflictGroups = [g \in ConflictLevels |-> NoSlots]
    /\ emails = << >>
    /\ batchSize = 0
    /\ batchStart = 1
    /\ allAvailabilities = << >>
    /\ emailMap = {}
    /\ fetched = << >>
    /\ err = FALSE
    /\ RestInit

NextCurator == RunDisplayResults

SpecCurator == CuratorInit /\ [][NextCurator]_vars

-----------------------------------------------------------------------------
(* calendar.GetBusyTimesWithBatching.  A UserAvailability is represented by
   its Email: busy slots and timezone play no part in the batching. *)

\* calendar.go 42
DefaultBatchSize == 50

\* the emails a caller may request: any list, repetitions included
RequestedEmails ==
    UNION {[1..n -> {EmailNames[k] : k \in 1..3}] : n \in 0..MaxEmails}

\* lines 146-163: getBusyTimesBatch returns one entry per key of the answer's
\* Calendars map, in the map's iteration order: any arrangement, without
\* repetition, of the calendars the service answers for
Arrangements(S) ==
    {f \in [1..Cardinality(S) -> S] : \A i, j \in DOMAIN f : i # j => f[i] # f[j]}

BatchAnswers(batch) ==
    UNION {Arrangements(S) : S \in SUBSET {batch[k] : k \in 1..Len(batch)}}

\* every availability of a batch is added, already present or not
isNewEmail_Always(seen, email) == TRUE

\* line 101
isNewEmail(seen, email) == email \notin seen

\* lines 100-105: add the unique results of one batch
RECURSIVE addUnique(_, _, _, _)
addUnique(all, seen, batchAvailabilities, k) ==
    IF k > Len(batchAvailabilities)
    THEN [all |-> all, seen |-> seen]
    ELSE IF isNewEmail(seen, batchAvailabilities[k])
    THEN addUnique(Append(all, batchAvailabilities[k]),
                   seen \cup {batchAvailabilities[k]}, batchAvailabilities, k + 1)
    ELSE addUnique(all, seen, batchAvailabilities, k + 1)

\* lines 50-58 and 67-70: the call, up to the first freebusy query
CallGetBusyTimesWithBatching ==
    /\ pc = "start"
    /\ \E list \in RequestedEmails, size \in 0..MaxBatchSize :
          /\ emails' = list
          /\ batchSize' = IF size <= 0 THEN DefaultBatchSize ELSE size
          /\ pc' = IF Len(list) <= batchSize' THEN "single" ELSE "batches"
    /\ batchStart' = 1
    /\ allAvailabilities' = << >>
    /\ emailMap' = {}
    /\ fetched' = << >>
    /\ err' = FALSE
    /\ UNCHANGED <<cfg, startTime, endTime, potentialSlots, availabilities,
                   meetingDuration, maxSlots, meetingSlots, optimalSlots,
                   maxConflicts, filteredSlots, max_slots, curatorVars,
                   restVars>>

\* lines 56-58: few enough emails, one query; its error is the call's error
FetchSingleBatch ==
    /\ pc = "single"
    /\ \/ /\ fetched' = Append(fetched, [batch |-> emails, ok |-> FALSE,
                                           calendars |-> << >>])
          /\ err' = TRUE
          /\ UNCHANGED allAvailabilities
       \/ \E answer \in BatchAnswers(emails) :
             /\ fetched' = Append(fetched, [batch |-> emails, ok |-> TRUE,
                                            calendars |-> answer])
             /\ allAvailabilities' = answer
             /\ UNCHANGED err
    /\ pc' = "returned"
    /\ UNCHANGED <<cfg, startTime, endTime, potentialSlots, availabilities,
                   meetingDuration, maxSlots, meetingSlots, optimalSlots,
                   maxConflicts, filteredSlots, max_slots, curatorVars,
                   emails, batchSize, batchStart, emailMap,
                   restVars>>

\* lines 70-111: one iteration of the loop over the batches
FetchNextBatch ==
    /\ pc = "batches"
    /\ batchStart <= Len(emails)
    /\ LET end == IF batchStart + batchSize - 1 > Len(emails)
                  THEN Len(emails)
                  ELSE batchStart + batchSize - 1
           batch == SubSeq(emails, batchStart, end)
       IN  \/ /\ fetched' = Append(fetched, [batch |-> batch, ok |-> FALSE,
                                              calendars |-> << >>])
              /\ UNCHANGED <<allAvailabilities, emailMap>>
           \/ \E answer \in BatchAnswers(batch) :
                 /\ fetched' = Append(fetched, [batch |-> batch, ok |-> TRUE,
                                                calendars |-> answer])
                 /\ allAvailabilities' =
                       addUnique(allAvailabilities, emailMap, answer, 1).all
                 /\ emailMap' =
                       addUnique(allAvailabilities, emailMap, answer, 1).seen
    /\ batchStart' = batchStart + batchSize
    /\ UNCHANGED <<pc, cfg, startTime, endTime, potentialSlots, availabilities,
                   meetingDuration, maxSlots, meetingSlots, optimalSlots,
                   maxConflicts, filteredSlots, max_slots, curatorVars,
                   emails, batchSize, err,
                   restVars>>

\* lines 113-118: the loop is over, the list is returned without error
ReturnAllAvailabilities ==
    /\ pc = "batches"
    /\ batchStart > Len(emails)
    /\ pc' = "returned"
    /\ UNCHANGED <<cfg, startTime, endTime, potentialSlots, availabilities,
                   meetingDuration, maxSlots, meetingSlots, optimalSlots,
                   maxConflicts, filteredSlots, max_slots, curatorVars, batchVars,
                   restVars>>

NextBatch ==
    \/ CallGetBusyTimesWithBatching
    \/ FetchSingleBatch
    \/ FetchNextBatch
    \/ ReturnAllAvailabilities

SpecBatch == Init /\ [][NextBatch]_vars

-----------------------------------------------------------------------------
(* The run from the calendar fetch on: cmd/root.go 286-335 with
   calendar.GetBusyTimes and getBusyTimesBatch, then the pipeline on the
   availabilities fetched *)

\* time.UTC on the reference axis, for a reference timezone offset minutes
\* ahead of UTC
UTC(offset) == FixedZone(0 - offset)

\* --timezone: UTC itself, and one hour ahead of it
ReferenceOffsets == {0, 60}

\* the search ranges, <<first day, further days>>: Monday alone, and Friday
\* with the Saturday after it
FetchedRanges == {<<0, 0>>, <<4, 1>>}

\* a plain day, and an evening that ends at midnight
FetchedConfigs ==
    {WorkingHoursConfig(9, 17, 12, 13, TRUE),
     WorkingHoursConfig(18, 24, 12, 13, TRUE)}

FetchedDurations == {45, 60}

\* --max-slots
FetchedFlags == {2}

\* getCalendarTimeZone (calendar.go 180-195): an error, or the location
\* time.LoadLocation returns, which is never nil
TimeZoneAnswers(offset) ==
    {[failed |-> TRUE, zone |-> NoTZ]}
        \cup {[failed |-> FALSE, zone |-> z] :
                 z \in {FixedZone(0 - 90)}}

\* the attendee keeps no timezone when its fetch fails
timeZoneOrUTC_Nil(answer, offset) ==
    IF answer.failed THEN NoTZ ELSE answer.zone

\* calendar.go 165-174
timeZoneOrUTC(answer, offset) ==
    IF answer.failed THEN UTC(offset) ELSE answer.zone

\* calendar.go 146-163: the busy intervals the freebusy answer holds for one
\* calendar
BusyAnswers(start) ==
    {<< >>, <<TimeSlot(start + 600, start + 660)>>}

\* calendar.go 122-177: what getBusyTimesBatch may return for a batch, with
\* the emails whose timezone fetch failed
getBusyTimesBatch(batch, start, offset) ==
    UNION {
        {[availabilities |->
             [i \in 1..Cardinality(S) |->
                 [Email |-> order[i],
                  BusySlots |-> busy[order[i]],
                  TimeZone |-> timeZoneOrUTC(tz[order[i]], offset)]],
          timezoneFailed |-> {e \in S : tz[e].failed}] :
            order \in Arrangements(S),
            busy \in [S -> BusyAnswers(start)],
            tz \in [S -> TimeZoneAnswers(offset)]} :
        S \in SUBSET {batch[k] : k \in 1..Len(batch)}}

\* root.go 286-335: the reference timezone, the dates, and GetBusyTimes for
\* the attendees, who fit in one batch (calendar.go 44-58); an error is fatal
RunGetBusyTimes ==
    /\ pc = "start"
    /\ \E offset \in ReferenceOffsets, r \in FetchedRanges, n \in 1..MaxFetched :
          /\ location' = offset
          /\ startTime' = r[1] * MinutesPerDay
          /\ endTime' = (r[1] + r[2]) * MinutesPerDay
          /\ emails' = [i \in 1..n |-> EmailNames[i]]
          /\ batchSize' = DefaultBatchSize
          /\ \/ /\ err' = TRUE
                /\ pc' = "fatal"
                /\ UNCHANGED <<availabilities, allAvailabilities, timezoneFailed>>
             \/ \E result \in getBusyTimesBatch(emails', startTime', offset) :
                   /\ availabilities' = result.availabilities
                   /\ allAvailabilities' = EmailsOf(result.availabilities)
                   /\ timezoneFailed' = result.timezoneFailed
                   /\ pc' = "fetched"
                   /\ UNCHANGED err
    /\ UNCHANGED <<cfg, potentialSlots, meetingDuration, maxSlots, meetingSlots,
                   optimalSlots, maxConflicts, filteredSlots, max_slots,
                   curatorVars, batchStart, emailMap, fetched, legacySlots,
                   regionVars, directoryVars>>

\* root.go 354-372: the windows of the search range
RunGetWorkingHoursFetched ==
    /\ pc = "fetched"
    /\ \E c \in FetchedConfigs :
          /\ cfg' = c
          /\ potentialSlots' =
                GetWorkingHours(startTime, endTime, c.StartHour, c.EndHour,
                                c.LunchStartHour, c.LunchEndHour, c.ExcludeWeekends)
    /\ pc' = "windows"
    /\ UNCHANGED <<startTime, endTime, availabilities, meetingDuration, maxSlots,
                   meetingSlots, optimalSlots, maxConflicts, filteredSlots,
                   max_slots, curatorVars, batchVars, restVars>>

NextFetched ==
    \/ RunGetBusyTimes
    \/ RunGetWorkingHoursFetched
    \/ FindOptimalMeetingSlotsStep({availabilities}, FetchedDurations,
                                   FetchedFlags)

SpecFetched == Init /\ [][NextFetched]_vars

-----------------------------------------------------------------------------
(* holidays.Service: NewService and lookupRegion (internal/holidays/service.go) *)

\* the embedded table of timezone names and their region codes; the entries
\* are those the repository names: Europe/Paris (its test) and Asia/Kolkata
timezoneToRegions ==
    [tz \in {"Europe/Paris", "Asia/Kolkata"} |->
        IF tz = "Europe/Paris" THEN <<Upper("fr")>> ELSE <<Upper("in")>>]

\* loc.String() of the locations a caller passes: two of the table, the
\* fixed zone of the test, UTC, and a fixed zone without a name
TimezoneNames == {"Europe/Paris", "Asia/Kolkata", "Custom/Zone", "UTC", ""}

LookupEmails == {Lower("julien@example.com"), Mixed("julien@example.com"),
                 Lower("a@x.org")}

\* the overrides maps given to NewService, as sets of <<email, code>>
OverrideMaps ==
    {{},
     {<<Mixed("julien@example.com"), Lower("be")>>},
     {<<Lower("a@x.org"), Upper("in")>>, <<EmptyString, Upper("fr")>>,
      <<Lower("julien@example.com"), EmptyString>>}}

\* lines 60-66: the overrides with lower-case emails and upper-case codes,
\* entries with an empty email or code left out
normalizeOverrides(overrides) ==
    LET kept == {o \in overrides : o[1] # EmptyString /\ o[2] # EmptyString}
    IN  [email \in {ToLower(o[1]) : o \in kept} |->
            ToUpper((CHOOSE o \in kept : ToLower(o[1]) = email)[2])]

\* what the restcountries service may answer to one request: no answer at
\* all, a status, and for 200 a body that does not decode or the cca2 codes
\* of the countries it lists
HTTPAnswers ==
    {[status |-> 0, decodes |-> FALSE, countries |-> << >>],
     [status |-> 404, decodes |-> FALSE, countries |-> << >>],
     [status |-> 500, decodes |-> FALSE, countries |-> << >>],
     [status |-> 200, decodes |-> FALSE, countries |-> << >>],
     [status |-> 200, decodes |-> TRUE, countries |-> << >>],
     [status |-> 200, decodes |-> TRUE, countries |-> <<EmptyString>>],
     [status |-> 200, decodes |-> TRUE, countries |-> <<EmptyString, Lower("gb")>>]}

\* lines 331-342
mapRegionForTimezone(timezone) ==
    IF timezone = "" THEN [code |-> EmptyString, ok |-> FALSE]
    ELSE IF timezone \notin DOMAIN timezoneToRegions
            \/ Len(timezoneToRegions[timezone]) = 0
    THEN [code |-> EmptyString, ok |-> FALSE]
    ELSE [code |-> timezoneToRegions[timezone][1], ok |-> TRUE]

\* lines 251-257: the first country with a code
RECURSIVE firstCode(_, _)
firstCode(countries, k) ==
    IF k > Len(countries) THEN EmptyString
    ELSE IF countries[k] # EmptyString THEN ToUpper(countries[k])
    ELSE firstCode(countries, k + 1)

\* no status is taken for Not Found
isNotFound_Never(answer) == FALSE

\* line 235: http.StatusNotFound
isNotFound(answer) == answer.status = 404

\* lines 212-259: the code, whether an error is returned, and the number of
\* requests given to the client
fetchRegionForTimezone(timezone, answer) ==
    IF timezone = ""
    THEN [code |-> EmptyString, err |-> FALSE, requests |-> 0]
    ELSE IF answer.status = 0
    THEN [code |-> EmptyString, err |-> TRUE, requests |-> 1]
    ELSE IF isNotFound(answer)
    THEN [code |-> EmptyString, err |-> FALSE, requests |-> 1]
    ELSE IF answer.status # 200
    THEN [code |-> EmptyString, err |-> TRUE, requests |-> 1]
    ELSE IF ~answer.decodes
    THEN [code |-> EmptyString, err |-> TRUE, requests |-> 1]
    ELSE [code |-> firstCode(answer.countries, 1), err |-> FALSE, requests |-> 1]

\* the cache is not asked
cached_Never(cache, timezone) == FALSE

\* line 184
cached(cache, timezone) == timezone \in DOMAIN cache

\* lines 175-210: the code and error returned, the requests made, and the
\* cache afterwards
lookupRegion(overrides, cache, email, timezone, answer) ==
    LET emailKey == ToLower(email)
        mapped == mapRegionForTimezone(timezone)
        fetchedRegion == fetchRegionForTimezone(timezone, answer)
    IN  IF emailKey \in DOMAIN overrides
        THEN [code |-> ToUpper(overrides[emailKey]), err |-> FALSE, requests |-> 0,
              cache |-> cache]
        ELSE IF cached(cache, timezone)
        THEN [code |-> cache[timezone], err |-> FALSE, requests |-> 0,
              cache |-> cache]
        ELSE IF mapped.ok
        THEN [code |-> mapped.code, err |-> FALSE, requests |-> 0,
              cache |-> mapPut(cache, timezone, mapped.code)]
        ELSE IF fetchedRegion.err
        THEN [code |-> EmptyString, err |-> TRUE,
              requests |-> fetchedRegion.requests, cache |-> cache]
        ELSE IF fetchedRegion.code = EmptyString
        THEN [code |-> EmptyString, err |-> FALSE,
              requests |-> fetchedRegion.requests, cache |-> cache]
        ELSE [code |-> fetchedRegion.code, err |-> FALSE,
              requests |-> fetchedRegion.requests,
              cache |-> mapPut(cache, timezone, fetchedRegion.code)]

\* lines 53-77
CallNewService ==
    /\ pc = "start"
    /\ \E overrides \in OverrideMaps :
          regionOverrides' = normalizeOverrides(overrides)
    /\ tzRegionCache' = << >>
    /\ lookups' = << >>
    /\ pc' = "service"
    /\ UNCHANGED <<cfg, startTime, endTime, potentialSlots, availabilities,
                   meetingDuration, maxSlots, meetingSlots, optimalSlots,
                   maxConflicts, filteredSlots, max_slots, curatorVars, batchVars,
                   legacySlots, fetchVars, directoryVars>>

\* one call of lookupRegion, with the answer its request gets if it makes one
CallLookupRegion ==
    /\ pc = "service"
    /\ Len(lookups) < MaxLookups
    /\ \E email \in LookupEmails, timezone \in TimezoneNames, answer \in HTTPAnswers :
          LET result == lookupRegion(regionOverrides, tzRegionCache, email,
                                     timezone, answer)
          IN  /\ tzRegionCache' = result.cache
              /\ lookups' = Append(lookups,
                                   [email |-> email, timezone |-> timezone,
                                    cacheBefore |-> tzRegionCache,
                                    answer |-> IF result.requests = 0
                                               THEN << >> ELSE <<answer>>,
                                    requests |-> result.requests,
                                    code |-> result.code, err |-> result.err])
    /\ UNCHANGED <<pc, cfg, startTime, endTime, potentialSlots, availabilities,
                   meetingDuration, maxSlots, meetingSlots, optimalSlots,
                   maxConflicts, filteredSlots, max_slots, curatorVars, batchVars,
                   legacySlots, fetchVars, regionOverrides, directoryVars>>

NextRegion ==
    \/ CallNewService
    \/ CallLookupRegion

SpecRegion == Init /\ [][NextRegion]_vars

\* ------------------------------------------------------------------------
\* the attendees: --emails, --mailing-lists and the groups of the directory
\* (cmd/root.go 210-283, internal/directory/directory.go 84-124, 272-425)
\* ------------------------------------------------------------------------

\* the groups of a directory, by address: the pages Members.List answers.
\* team and eng hold each other, and eng names team in another spelling
CyclicDirectory ==
    [g \in {"team", "eng"} |->
        IF g = "team"
        THEN << <<Member(Lower("alice"), USER), Member(Lower("eng"), GROUP)>> >>
        ELSE << <<Member(Mixed("team"), GROUP), Member(Lower("bob"), USER)>> >>]

\* team holds itself, a nil entry and an entry without address
SelfDirectory ==
    [g \in {"team"} |->
        << <<Member(Lower("team"), GROUP), << >>,
             Member(Padded(EmptyString), USER), Member(Lower("alice"), Lower("user"))>> >>]

\* eng and ops both hold core; team answers in two pages; dave is listed
\* without a type and is no group
DiamondDirectory ==
    [g \in {"team", "eng", "ops", "core"} |->
        CASE g = "team" -> << <<Member(Lower("eng"), GROUP), Member(Lower("ops"), Upper("customer"))>>,
                              <<Member(Lower("alice"), USER)>> >>
          [] g = "eng" -> << <<Member(Lower("core"), GROUP), Member(Lower("dave"), EmptyString)>> >>
          [] g = "ops" -> << <<Member(Padded(Mixed("core")), Padded(Lower("group"))),
                               Member(Lower("bob"), Upper("external"))>> >>
          [] g = "core" -> << <<Member(Mixed("alice"), USER)>> >>]

\* root.go 222-228, 233-240
RECURSIVE cleanList(_)
cleanList(list) ==
    IF list = << >> THEN << >>
    ELSE IF TrimSpace(Head(list)) = EmptyString THEN cleanList(Tail(list))
    ELSE <<TrimSpace(Head(list))>> \o cleanList(Tail(list))

\* root.go 271-279
RECURSIVE removeDuplicates(_, _)
removeDuplicates(list, seen) ==
    IF list = << >> THEN << >>
    ELSE IF Head(list) \in seen THEN removeDuplicates(Tail(list), seen)
    ELSE <<Head(list)>> \o removeDuplicates(Tail(list), seen \cup {Head(list)})

\* directory.go 301-336: getGroupMembersRecursive up to its page loop; the
\* call returns nil at once, or is entered and becomes the top of the stack
callRecursive(c, st, groupEmail, depth) ==
    LET normalizedGroup == normalizeEmail(groupEmail)
        c1 == [c EXCEPT !.maxDepth = IF depth > @ THEN depth ELSE @]
    IN  IF isCircular(c1.currentPath, normalizedGroup)
        THEN [ctx |-> [c1 EXCEPT !.circularRefs = mapPut(@, normalizedGroup, groupEmail)],
              stack |-> st, entered |-> FALSE]
        ELSE IF alreadyVisited(c1.visitedGroups, normalizedGroup)
        THEN [ctx |-> c1, stack |-> st, entered |-> FALSE]
        ELSE [ctx |-> [c1 EXCEPT !.visitedGroups = @ \cup {normalizedGroup},
                                 !.currentPath = Append(@, groupEmail)],
              stack |-> Append(st, [groupEmail |-> groupEmail, depth |-> depth,
                                    page |-> 1, fetched |-> FALSE, i |-> 1]),
              entered |-> TRUE]

\* the call in progress, the pages of its group, and its step to the next member
top == stack[Len(stack)]
topPages == directory[normalizeEmail(top.groupEmail).text]
advance(st) == [st EXCEPT ![Len(st)].i = @ + 1]

\* the member the caller of the top call is at, trimmed (directory.go 363)
callerMemberEmail == TrimSpace(directory[normalizeEmail(stack[Len(stack) - 1].groupEmail).text][stack[Len(stack) - 1].page][stack[Len(stack) - 1].i].Email)

otherVars == <<cfg, startTime, endTime, potentialSlots, availabilities,
               meetingDuration, maxSlots, meetingSlots, optimalSlots,
               maxConflicts, filteredSlots, max_slots, curatorVars, batchVars,
               legacySlots, fetchVars, regionVars>>

\* root.go 210-255 and, when no list is to be resolved, 271-283; the
\* --emails and --mailing-lists flags come split at the commas
ParseInputs ==
    /\ pc = "start"
    /\ \E emailsInput \in {<< >>, <<Padded(Mixed("alice")), Padded(EmptyString)>>,
                           <<Lower("bob"), Mixed("bob")>>},
          listsInput \in {<< >>, <<Padded(Lower("team"))>>, <<Mixed("ops"), Lower("team")>>,
                          <<Lower("erin")>>} :
          LET parsed == cleanList(emailsInput)
              lists == cleanList(listsInput)
          IN  \/ /\ emailsInput = << >> /\ listsInput = << >>
                 /\ pc' = "fatal"
                 /\ UNCHANGED <<directory, allEmails, mailingListsClean, emailList>>
              \/ /\ emailsInput # << >> \/ listsInput # << >>
                 /\ mailingListsClean' = lists
                 /\ \/ /\ lists # << >>
                       /\ directory' \in {CyclicDirectory, SelfDirectory, DiamondDirectory}
                       /\ allEmails' = parsed
                       /\ pc' = "resolving"
                       /\ UNCHANGED emailList
                    \/ /\ allEmails' = parsed \o lists
                       /\ emailList' = removeDuplicates(allEmails', {})
                       /\ pc' = IF emailList' = << >> THEN "fatal" ELSE "attendees"
                       /\ UNCHANGED directory
    /\ listIndex' = 1
    /\ resolvedEmails' = << >>
    /\ UNCHANGED <<ctx, stack, requests, resolutionErr, otherVars>>

\* directory.go 87-94, 272-286: the next entry of the loop of
\* ResolveMemberEmails, up to the first Members.List of its group
CallGetGroupMembers ==
    /\ pc = "resolving"
    /\ listIndex <= Len(mailingListsClean)
    /\ LET email == TrimSpace(mailingListsClean[listIndex])
           call == callRecursive(NewContext, << >>, email, 0)
       IN  /\ ctx' = call.ctx
           /\ stack' = call.stack
    /\ requests' = << >>
    /\ resolutionErr' = << >>
    /\ pc' = "expanding"
    /\ UNCHANGED <<directory, allEmails, mailingListsClean, listIndex,
                   resolvedEmails, emailList, otherVars>>

\* directory.go 341-349, 358: call.Do() answers a page of members
FetchMembers ==
    /\ pc = "expanding"
    /\ ~top.fetched
    /\ normalizeEmail(top.groupEmail).text \in DOMAIN directory
    /\ requests' = Append(requests, [groupEmail |-> top.groupEmail, page |-> top.page,
                                     depth |-> top.depth, err |-> << >>, fault |-> FALSE])
    /\ stack' = [stack EXCEPT ![Len(stack)].fetched = TRUE, ![Len(stack)].i = 1]
    /\ UNCHANGED <<pc, directory, allEmails, mailingListsClean, listIndex,
                   resolvedEmails, ctx, resolutionErr, emailList, otherVars>>

\* directory.go 349-356, 383-409, 94-100: call.Do() fails, the call returns a
\* GroupResolutionError, and its caller goes on: the enclosing call with its
\* next member, ResolveMemberEmails with its next entry
FailFetchMembers ==
    /\ pc = "expanding"
    /\ ~top.fetched
    /\ \E errStr \in DirectoryErrors :
          LET known == normalizeEmail(top.groupEmail).text \in DOMAIN directory
              groupErr == GroupResolutionError(top.groupEmail, errStr)
              popped == [ctx EXCEPT !.currentPath = SubSeq(@, 1, Len(@) - 1)]
              faults == {k \in 1..Len(requests) : requests[k].fault}
          IN  /\ IF known THEN Cardinality(faults) < MaxFailures
                           ELSE errStr = {"404", "notFound"}
              /\ requests' = Append(requests, [groupEmail |-> top.groupEmail, page |-> top.page,
                                               depth |-> top.depth, err |-> <<groupErr>>,
                                               fault |-> known])
              /\ IF Len(stack) = 1
                 THEN /\ resolutionErr' = <<groupErr>>
                      /\ ctx' = popped
                      /\ stack' = << >>
                      /\ resolvedEmails' = mapPut(resolvedEmails, normalizeEmail(top.groupEmail),
                                                  top.groupEmail)
                      /\ listIndex' = listIndex + 1
                      /\ pc' = "resolving"
                 ELSE /\ ctx' = IF treatAsIndividual(groupErr.ErrorType)
                                THEN [popped EXCEPT
                                        !.nestedGroups = [k \in DOMAIN @ \ {normalizeEmail(callerMemberEmail)} |-> @[k]],
                                        !.memberEmails = mapPut(@, normalizeEmail(callerMemberEmail),
                                                                callerMemberEmail)]
                                ELSE [popped EXCEPT
                                        !.failedGroups = mapPut(@, callerMemberEmail, groupErr),
                                        !.hasPartialFailure = TRUE]
                      /\ stack' = advance(SubSeq(stack, 1, Len(stack) - 1))
                      /\ UNCHANGED <<resolutionErr, resolvedEmails, listIndex, pc>>
    /\ UNCHANGED <<directory, allEmails, mailingListsClean, emailList, otherVars>>

\* directory.go 358-416: one member of the page, up to the first Members.List
\* of the member when it is expanded as a nested group
ProcessMember ==
    /\ pc = "expanding"
    /\ top.fetched
    /\ top.i <= Len(topPages[top.page])
    /\ LET member == topPages[top.page][top.i]
           memberEmail == TrimSpace(member.Email)
           normalizedMember == normalizeEmail(memberEmail)
           memberType == ToUpper(TrimSpace(member.Type))
           added == [ctx EXCEPT !.memberEmails = mapPut(@, normalizedMember, memberEmail)]
           nested == [ctx EXCEPT !.nestedGroups = mapPut(@, normalizedMember, memberEmail)]
           call == callRecursive(nested, stack, memberEmail, top.depth + 1)
       IN  IF member = << >> \/ memberEmail = EmptyString
           THEN /\ stack' = advance(stack)
                /\ UNCHANGED ctx
           ELSE IF memberType = USER
           THEN /\ ctx' = added
                /\ stack' = advance(stack)
           ELSE IF shouldAttemptGroup(memberType)
           THEN /\ ctx' = call.ctx
                /\ stack' = IF call.entered THEN call.stack ELSE advance(stack)
           ELSE /\ ctx' = added
                /\ stack' = advance(stack)
    /\ UNCHANGED <<pc, directory, allEmails, mailingListsClean, listIndex,
                   resolvedEmails, requests, resolutionErr, emailList, otherVars>>

\* directory.go 418-421: the answer names a next page
NextPage ==
    /\ pc = "expanding"
    /\ top.fetched
    /\ top.i > Len(topPages[top.page])
    /\ top.page < Len(topPages)
    /\ stack' = [stack EXCEPT ![Len(stack)].page = @ + 1, ![Len(stack)].fetched = FALSE]
    /\ UNCHANGED <<pc, directory, allEmails, mailingListsClean, listIndex,
                   resolvedEmails, ctx, requests, resolutionErr, emailList, otherVars>>

\* ResolveMemberEmails with the members getGroupMembers returned
\* (directory.go 291-297, 102-114)
mergeMembers(memberEmails, email, members) ==
    IF members # {}
    THEN [k \in DOMAIN memberEmails \cup {normalizeEmail(m) : m \in members \ {EmptyString}} |->
            IF \E m \in members \ {EmptyString} : normalizeEmail(m) = k
            THEN CHOOSE m \in members \ {EmptyString} : normalizeEmail(m) = k
            ELSE memberEmails[k]]
    ELSE mapPut(memberEmails, normalizeEmail(email), email)

\* directory.go 419-424, 383-411, 286-297, 102-114: the last page is done,
\* the call returns nil, and its caller goes on
ReturnFromGroup ==
    /\ pc = "expanding"
    /\ top.fetched
    /\ top.i > Len(topPages[top.page])
    /\ top.page = Len(topPages)
    /\ ctx' = [ctx EXCEPT !.currentPath = SubSeq(@, 1, Len(@) - 1)]
    /\ IF Len(stack) = 1
       THEN /\ stack' = << >>
            /\ resolvedEmails' = mergeMembers(resolvedEmails, top.groupEmail,
                                              mapValues(ctx.memberEmails))
            /\ listIndex' = listIndex + 1
            /\ pc' = "resolving"
       ELSE /\ stack' = advance(SubSeq(stack, 1, Len(stack) - 1))
            /\ UNCHANGED <<resolvedEmails, listIndex, pc>>
    /\ UNCHANGED <<directory, allEmails, mailingListsClean, requests,
                   resolutionErr, emailList, otherVars>>

\* directory.go 117-123, root.go 258-283: the addresses of the map in the
\* order its iteration gives, then "Remove duplicates"
ReturnResolved ==
    /\ pc = "resolving"
    /\ listIndex > Len(mailingListsClean)
    /\ \E result \in Arrangements(mapValues(resolvedEmails)) :
          allEmails' = allEmails \o result
    /\ emailList' = removeDuplicates(allEmails', {})
    /\ pc' = IF emailList' = << >> THEN "fatal" ELSE "attendees"
    /\ UNCHANGED <<directory, mailingListsClean, listIndex, resolvedEmails, ctx,
                   stack, requests, resolutionErr, otherVars>>

NextDirectory ==
    \/ ParseInputs
    \/ CallGetGroupMembers
    \/ FetchMembers
    \/ FailFetchMembers
    \/ ProcessMember
    \/ NextPage
    \/ ReturnFromGroup
    \/ ReturnResolved

\* every call returns: a step that can be taken is taken
SpecDirectory == Init /\ [][NextDirectory]_vars /\ WF_vars(NextDirectory)

-----------------------------------------------------------------------------
(* Vocabulary of the properties, independent of the operators above *)

\* the days of the search range that are not skipped, as day indexes
RangeDays == (startTime \div (24 * 60)) .. (endTime \div (24 * 60))
IsWeekendDay(d) == d % 7 \in {5, 6}
WorkDays == {d \in RangeDays : ~(cfg.ExcludeWeekends /\ IsWeekendDay(d))}

\* the k-th non-skipped day in chronological order
WorkDay(k) == CHOOSE d \in WorkDays : Cardinality({e \in WorkDays : e < d}) = k - 1

\* an hour of the clock on day d, as an instant
AtHour(d, h) == d * 24 * 60 + h * 60

ValidHours == 0 <= cfg.StartHour /\ cfg.StartHour < cfg.EndHour /\ cfg.EndHour <= 24

WindowsDone == pc = "windows"

-----------------------------------------------------------------------------
(* C7: on every non-skipped day with lunch strictly inside working hours
   (dayStart < lunchStart < lunchEnd < dayEnd) GetWorkingHours emits exactly
   the two windows [dayStart, lunchStart) and [lunchEnd, dayEnd), in that
   order, and no window holds an instant of that day's [lunchStart, lunchEnd). *)
LunchInside ==
    /\ cfg.StartHour < cfg.LunchStartHour
    /\ cfg.LunchStartHour < cfg.LunchEndHour
    /\ cfg.LunchEndHour < cfg.EndHour

C7_LunchSplitsDay ==
    (WindowsDone /\ LunchInside) =>
        /\ Len(potentialSlots) = 2 * Cardinality(WorkDays)
        /\ \A k \in 1..Cardinality(WorkDays) :
              /\ potentialSlots[2 * k - 1] =
                    [Start |-> AtHour(WorkDay(k), cfg.StartHour),
                     End |-> AtHour(WorkDay(k), cfg.LunchStartHour)]
              /\ potentialSlots[2 * k] =
                    [Start |-> AtHour(WorkDay(k), cfg.LunchEndHour),
                     End |-> AtHour(WorkDay(k), cfg.EndHour)]
        /\ \A i \in 1..Len(potentialSlots) : \A d \in WorkDays :
              ~(/\ potentialSlots[i].Start < AtHour(d, cfg.LunchEndHour)
                /\ potentialSlots[i].End > AtHour(d, cfg.LunchStartHour))

C7_Witness ==
    /\ WindowsDone /\ LunchInside
    /\ cfg.ExcludeWeekends
    /\ Cardinality(RangeDays) = 2 /\ Cardinality(WorkDays) = 1
    /\ Len(potentialSlots) = 2

-----------------------------------------------------------------------------
(* C8: on every non-skipped day whose lunch interval does not overlap
   [dayStart, dayEnd) at all (lunchEnd <= dayStart or lunchStart >= dayEnd,
   touching included) GetWorkingHours emits exactly one window, the full
   [dayStart, dayEnd).  Stated for validated hours and a non-empty lunch interval. *)
LunchOutside ==
    \/ cfg.LunchEndHour <= cfg.StartHour
    \/ cfg.LunchStartHour >= cfg.EndHour

C8_LunchOutsideFullDay ==
    (WindowsDone /\ ValidHours /\ cfg.LunchStartHour < cfg.LunchEndHour
        /\ LunchOutside) =>
        /\ Len(potentialSlots) = Cardinality(WorkDays)
        /\ \A k \in 1..Cardinality(WorkDays) :
              potentialSlots[k] =
                 [Start |-> AtHour(WorkDay(k), cfg.StartHour),
                  End |-> AtHour(WorkDay(k), cfg.EndHour)]

-----------------------------------------------------------------------------
(* C9: with 0 <= startHour < endHour <= 24 and any lunch hours, every window
   has start < end, lies within [dayStart, dayEnd] of one non-skipped day of
   the range, and so within one calendar day: it does not cross midnight. *)
C9_WindowsWellFormed ==
    (WindowsDone /\ ValidHours) =>
        \A i \in 1..Len(potentialSlots) :
            LET w == potentialSlots[i]
            IN  /\ w.Start < w.End
                /\ \E d \in WorkDays :
                      /\ AtHour(d, cfg.StartHour) <= w.Start
                      /\ w.End <= AtHour(d, cfg.EndHour)
                      /\ d * 24 * 60 <= w.Start
                      /\ w.End <= (d + 1) * 24 * 60

\* a day ending at 24:00 with an inverted lunch: two overlapping windows
C9_Witness ==
    /\ WindowsDone /\ ValidHours
    /\ cfg.EndHour = 24
    /\ cfg.LunchEndHour < cfg.LunchStartHour
    /\ Len(potentialSlots) = 2
    /\ potentialSlots[2].End = (potentialSlots[2].Start \div (24 * 60) + 1) * 24 * 60

-----------------------------------------------------------------------------
(* Vocabulary of the optimizer's properties *)

Scanned == pc \in {"ranked", "filtered", "curated", "empty", "output"}

Range(seq) == {seq[i] : i \in 1..Len(seq)}

\* every slot FindOptimalMeetingSlots builds, returned or not
SlotsProduced == Range(meetingSlots) \cup Range(optimalSlots)

Attendees == 1..Len(availabilities)

\* attendee i has a busy interval b with start < b.end and end > b.start
BusyDuring(i, start, end) ==
    \E b \in Range(availabilities[i].BusySlots) : start < b.End /\ end > b.Start

ConflictSet(m) ==
    {availabilities[i].Email :
        i \in {j \in Attendees : BusyDuring(j, m.TimeSlot.Start, m.TimeSlot.End)}}

FreeAttendees(m) ==
    {i \in Attendees : ~BusyDuring(i, m.TimeSlot.Start, m.TimeSlot.End)}

\* x = n / d for a stored percentage x
IsFraction(x, n, d) == x.num * d = n * x.den

-----------------------------------------------------------------------------
(* C1: for every slot FindOptimalMeetingSlots produces, conflictPercentage is
   (attendees with a calendar conflict) / (attendees in the availability list
   passed in) * 100, and 0 when the list is empty; with three attendees of
   whom exactly one is busy 10:00-11:00, the 09:00-10:00 slot has 0 and the
   10:00-11:00 slot has 100/3. *)
ScenarioA ==
    /\ Len(availabilities) = 3
    /\ Cardinality({i \in Attendees : availabilities[i].BusySlots # << >>}) = 1
    /\ \E i \in Attendees :
          availabilities[i].BusySlots = <<[Start |-> startTime + 10 * 60,
                                           End |-> startTime + 11 * 60]>>

C1_ConflictPercentage ==
    Scanned =>
        \A m \in SlotsProduced :
            /\ Len(availabilities) = 0 => IsFraction(m.ConflictPercentage, 0, 1)
            /\ Len(availabilities) > 0 =>
                  IsFraction(m.ConflictPercentage,
                             100 * Cardinality(ConflictSet(m)), Len(availabilities))
            /\ (ScenarioA /\ m.TimeSlot = [Start |-> startTime + 9 * 60,
                                           End |-> startTime + 10 * 60])
                  => m.ConflictPercentage = [num |-> 0, den |-> 1]
            /\ (ScenarioA /\ m.TimeSlot = [Start |-> startTime + 10 * 60,
                                           End |-> startTime + 11 * 60])
                  => m.ConflictPercentage = [num |-> 100, den |-> 3]

C1_Witness ==
    /\ Scanned /\ ScenarioA
    /\ \E m \in Range(optimalSlots) :
          /\ m.TimeSlot = [Start |-> startTime + 9 * 60, End |-> startTime + 10 * 60]
          /\ m.ConflictPercentage = [num |-> 0, den |-> 1]
    /\ \E m \in Range(meetingSlots) :
          /\ m.TimeSlot = [Start |-> startTime + 10 * 60, End |-> startTime + 11 * 60]
          /\ m.ConflictPercentage = [num |-> 100, den |-> 3]

-----------------------------------------------------------------------------
(* C2: for every scanned slot and every attendee, the attendee is listed as
   unavailable iff one of their busy intervals b has slot.start < b.end and
   slot.end > b.start (touching does not count), otherwise as available; each
   attendee appears exactly once in the two lists together. *)
C2_AvailabilitySplit ==
    Scanned =>
        \A m \in SlotsProduced :
            /\ \A i \in Attendees :
                  /\ availabilities[i].Email \in Range(m.UnavailableEmails)
                        <=> BusyDuring(i, m.TimeSlot.Start, m.TimeSlot.End)
                  /\ availabilities[i].Email \in Range(m.AvailableEmails)
                        <=> ~BusyDuring(i, m.TimeSlot.Start, m.TimeSlot.End)
            /\ Range(m.UnavailableEmails) \cup Range(m.AvailableEmails)
                  = {availabilities[i].Email : i \in Attendees}
            /\ Len(m.UnavailableEmails) + Len(m.AvailableEmails) = Len(availabilities)

\* a slot that ends where a busy interval starts, its owner listed as available
C2_Witness ==
    /\ Scanned
    /\ \E m \in Range(meetingSlots) : \E i \in Attendees :
          /\ \E b \in Range(availabilities[i].BusySlots) : b.Start = m.TimeSlot.End
          /\ availabilities[i].Email \in Range(m.AvailableEmails)
    /\ \E m \in Range(meetingSlots) : m.UnavailableEmails # << >>

-----------------------------------------------------------------------------
(* C3: the slots scanned from a window W with duration d > 0 are exactly
   [W.start + k*30, W.start + k*30 + d) for the integers k >= 0 with
   W.start + k*30 + d <= W.end, window after window; every slot lies inside
   its window and a window shorter than d yields none. *)
SlotsIn(w) ==
    IF w.End - w.Start >= meetingDuration
    THEN (w.End - w.Start - meetingDuration) \div 30 + 1
    ELSE 0

RECURSIVE SlotsBefore(_)
SlotsBefore(i) ==
    IF i <= 1 THEN 0 ELSE SlotsBefore(i - 1) + SlotsIn(potentialSlots[i - 1])

C3_ScanEnumeratesWindow ==
    (Scanned /\ meetingDuration > 0) =>
        /\ Len(meetingSlots) = SlotsBefore(Len(potentialSlots) + 1)
        /\ \A i \in 1..Len(potentialSlots) :
              \A k \in 0..(SlotsIn(potentialSlots[i]) - 1) :
                 LET m == meetingSlots[SlotsBefore(i) + k + 1]
                     w == potentialSlots[i]
                 IN  /\ m.TimeSlot = [Start |-> w.Start + k * 30,
                                      End |-> w.Start + k * 30 + meetingDuration]
                     /\ w.Start <= m.TimeSlot.Start
                     /\ m.TimeSlot.End <= w.End

\* a window that yields slots up to its very end beside one too short for any
C3_Witness ==
    /\ Scanned
    /\ \E i \in 1..Len(potentialSlots) : SlotsIn(potentialSlots[i]) = 0
    /\ \E i \in 1..Len(potentialSlots) :
          /\ SlotsIn(potentialSlots[i]) > 1
          /\ \E m \in Range(meetingSlots) :
                /\ m.TimeSlot.End = potentialSlots[i].End
                /\ m.TimeSlot.Start > potentialSlots[i].Start

-----------------------------------------------------------------------------
(* C4: for an available attendee with a known timezone, the slot is within
   working hours iff, in the attendee's local time, it does not cross a
   calendar-day boundary, is not on Saturday/Sunday when excludeWeekends is
   set, starts no earlier than startHour:00, ends no later than endHour:00 and
   does not overlap [lunchStartHour:00, lunchEndHour:00). *)
LocalDay(t) == t \div (24 * 60)

WithinWorkingHoursAsStated(start, end, offset) ==
    LET localStart == start + offset
        localEnd == end + offset
        d == LocalDay(localStart)
    IN  /\ localEnd <= (d + 1) * 24 * 60
        /\ ~(cfg.ExcludeWeekends /\ IsWeekendDay(d))
        /\ localStart >= AtHour(d, cfg.StartHour)
        /\ localEnd <= AtHour(d, cfg.EndHour)
        /\ ~(/\ localStart < AtHour(d, cfg.LunchEndHour)
             /\ localEnd > AtHour(d, cfg.LunchStartHour))

C4_WithinWorkingHours ==
    Scanned =>
        \A m \in SlotsProduced : \A i \in FreeAttendees(m) :
            availabilities[i].TimeZone # << >> =>
                (availabilities[i].Email \notin m.OutsideWorkingHours
                    <=> WithinWorkingHoursAsStated(m.TimeSlot.Start, m.TimeSlot.End,
                                                   availabilities[i].TimeZone[1]))

-----------------------------------------------------------------------------
(* C5: for every slot, timezoneScore is (available attendees within working
   hours, every available attendee without a timezone counted as within) /
   (available attendees) * 100, and 100 when no attendee is available. *)
WithinSet(m) ==
    {i \in FreeAttendees(m) :
        \/ availabilities[i].TimeZone = << >>
        \/ isWithinWorkingHours(m.TimeSlot.Start, m.TimeSlot.End,
                                availabilities[i].TimeZone, cfg)}

C5_TimezoneScore ==
    Scanned =>
        \A m \in SlotsProduced :
            /\ FreeAttendees(m) = {} => IsFraction(m.TimeZoneScore, 100, 1)
            /\ FreeAttendees(m) # {} =>
                  IsFraction(m.TimeZoneScore, 100 * Cardinality(WithinSet(m)),
                             Cardinality(FreeAttendees(m)))

\* one slot nobody is free for, one with free attendees some of whom have no
\* timezone and some of whom are outside their working hours
C5_Witness ==
    /\ Scanned
    /\ \E m \in Range(meetingSlots) :
          /\ Len(availabilities) > 0
          /\ FreeAttendees(m) = {}
          /\ m.TimeZoneScore = [num |-> 100, den |-> 1]
    /\ \E m \in Range(optimalSlots) :
          /\ \E i \in FreeAttendees(m) : availabilities[i].TimeZone = << >>
          /\ m.OutsideWorkingHours # {}
          /\ m.TimeZoneScore = [num |-> 50, den |-> 1]

-----------------------------------------------------------------------------
(* C6: FindOptimalMeetingSlots returns the first min(maxSlots, n) of the n
   scanned slots in ascending order of conflictPercentage*0.7 +
   (100 - timezoneScore)*0.3, equal scores by earlier start: no scanned slot
   left out precedes a returned one, and returned slots of equal score are in
   ascending start order. *)
\* ten times the composite score, as numerator and denominator
ScoreNum(m) ==
    7 * m.ConflictPercentage.num * m.TimeZoneScore.den
    + 3 * (100 * m.TimeZoneScore.den - m.TimeZoneScore.num) * m.ConflictPercentage.den
ScoreDen(m) == m.ConflictPercentage.den * m.TimeZoneScore.den

ScoreBelow(x, y) == ScoreNum(x) * ScoreDen(y) < ScoreNum(y) * ScoreDen(x)
ScoreEqual(x, y) == ScoreNum(x) * ScoreDen(y) = ScoreNum(y) * ScoreDen(x)

Precedes(x, y) ==
    \/ ScoreBelow(x, y)
    \/ ScoreEqual(x, y) /\ x.TimeSlot.Start < y.TimeSlot.Start

Occurrences(seq, v) == Cardinality({i \in 1..Len(seq) : seq[i] = v})

Min(a, b) == IF a < b THEN a ELSE b

C6_RankedPrefix ==
    Scanned =>
        /\ Len(optimalSlots) = Min(maxSlots, Len(meetingSlots))
        /\ \A v \in Range(optimalSlots) :
              Occurrences(optimalSlots, v) <= Occurrences(meetingSlots, v)
        /\ \A i, j \in 1..Len(optimalSlots) :
              i < j =>
                 /\ ~Precedes(optimalSlots[j], optimalSlots[i])
                 /\ ScoreEqual(optimalSlots[i], optimalSlots[j]) =>
                       optimalSlots[i].TimeSlot.Start <= optimalSlots[j].TimeSlot.Start
        /\ \A v \in Range(meetingSlots) :
              Occurrences(optimalSlots, v) < Occurrences(meetingSlots, v) =>
                 \A r \in Range(optimalSlots) : ~Precedes(v, r)

\* a truncated ranking that holds two slots of equal score, leaves a slot
\* out, and does not return the slots in scan order
C6_Witness ==
    /\ Scanned
    /\ 0 < Len(optimalSlots) /\ Len(optimalSlots) < Len(meetingSlots)
    /\ \E i, j \in 1..Len(optimalSlots) :
          /\ i < j
          /\ ScoreEqual(optimalSlots[i], optimalSlots[j])
          /\ optimalSlots[i].TimeSlot.Start < optimalSlots[j].TimeSlot.Start
    /\ optimalSlots # SubSeq(meetingSlots, 1, Len(optimalSlots))

-----------------------------------------------------------------------------
(* C10: FilterSlotsByThreshold keeps a slot iff its conflictPercentage is at
   most the ceiling (a slot exactly at the ceiling is kept), in input order;
   so for ceilings c1 <= c2 every slot kept at c1 is kept at c2. *)
Filtered == pc = "filtered"

AtMost(m, c) == m.ConflictPercentage.num <= c * m.ConflictPercentage.den

KeptIndexes(c) == {i \in 1..Len(optimalSlots) : AtMost(optimalSlots[i], c)}

\* the k-th kept index in input order
KeptIndex(c, k) ==
    CHOOSE i \in KeptIndexes(c) : Cardinality({j \in KeptIndexes(c) : j < i}) = k - 1

C10_ThresholdFilter ==
    Filtered =>
        /\ Len(filteredSlots) = Cardinality(KeptIndexes(maxConflicts))
        /\ \A k \in 1..Len(filteredSlots) :
              filteredSlots[k] = optimalSlots[KeptIndex(maxConflicts, k)]
        /\ \A c2 \in Ceilings :
              maxConflicts <= c2 =>
                 \A k \in 1..Len(filteredSlots) :
                    /\ KeptIndex(maxConflicts, k) \in KeptIndexes(c2)
                    /\ filteredSlots[k] \in Range(FilterSlotsByThreshold(optimalSlots, c2))

\* a slot exactly at the ceiling is kept, a slot above it dropped, and a
\* higher ceiling keeps more
C10_Witness ==
    /\ Filtered
    /\ maxConflicts = 50
    /\ \E m \in Range(filteredSlots) : m.ConflictPercentage = [num |-> 50, den |-> 1]
    /\ \E m \in Range(filteredSlots) : m.ConflictPercentage = [num |-> 0, den |-> 1]
    /\ Len(filteredSlots) < Len(optimalSlots)

-----------------------------------------------------------------------------
(* C11: the list handed to the display is the ranked slots filtered by the
   ceiling, of these the first max_slots in rank order, re-sorted by start
   time: it has at most max_slots entries, every entry has a
   conflictPercentage of at most the ceiling, and its entries are in ascending
   order of start time whatever their rank order. *)
Curated == pc \in {"curated", "empty", "output"}

\* how many of the ranked slots pass both the ceiling and the count limit
ShownCount == Min(max_slots, Cardinality(KeptIndexes(maxConflicts)))

\* these slots in rank order
ShownInRankOrder ==
    [k \in 1..ShownCount |-> optimalSlots[KeptIndex(maxConflicts, k)]]

C11_DisplayList ==
    Curated =>
        /\ Len(filteredSlots) = ShownCount
        /\ Len(filteredSlots) <= max_slots
        /\ \A v \in Range(filteredSlots) \cup Range(ShownInRankOrder) :
              Occurrences(filteredSlots, v) = Occurrences(ShownInRankOrder, v)
        /\ \A m \in Range(filteredSlots) : AtMost(m, maxConflicts)
        /\ \A i, j \in 1..Len(filteredSlots) :
              i < j => filteredSlots[i].TimeSlot.Start <= filteredSlots[j].TimeSlot.Start

\* the ceiling and the limit each drop a slot, and the display order differs
\* from the rank order
C11_Witness ==
    /\ Curated
    /\ Len(filteredSlots) = max_slots
    /\ Len(filteredSlots) >= 2
    /\ Cardinality(KeptIndexes(maxConflicts)) > max_slots
    /\ Cardinality(KeptIndexes(maxConflicts)) < Len(optimalSlots)
    /\ filteredSlots # ShownInRankOrder
    /\ filteredSlots[1].TimeSlot.Start < filteredSlots[2].TimeSlot.Start

-----------------------------------------------------------------------------
(* C12: for a non-empty displayed list the recommended slot is a slot of the
   list that is least under (conflictPercentage, number of working_hours
   conflicts, start time), each ascending: no displayed slot has a lower
   conflictPercentage, nor the same with fewer working-hours conflicts, nor
   the same of both with an earlier start. *)
Displayed == pc = "output"

WorkingHoursConflicts(m) == Cardinality(m.OutsideWorkingHours)

LowerPercentage(x, y) ==
    x.ConflictPercentage.num * y.ConflictPercentage.den
        < y.ConflictPercentage.num * x.ConflictPercentage.den

SamePercentage(x, y) ==
    x.ConflictPercentage.num * y.ConflictPercentage.den
        = y.ConflictPercentage.num * x.ConflictPercentage.den

BetterChoice(x, y) ==
    \/ LowerPercentage(x, y)
    \/ /\ SamePercentage(x, y)
       /\ WorkingHoursConflicts(x) < WorkingHoursConflicts(y)
    \/ /\ SamePercentage(x, y)
       /\ WorkingHoursConflicts(x) = WorkingHoursConflicts(y)
       /\ x.TimeSlot.Start < y.TimeSlot.Start

C12_RecommendationIsLeast ==
    Displayed =>
        /\ Len(bestSlot) = 1
        /\ bestSlot[1] \in Range(filteredSlots)
        /\ \A m \in Range(filteredSlots) : ~BetterChoice(m, bestSlot[1])

\* the recommended slot comes after a slot with a higher percentage and after
\* a slot with the same percentage and more working-hours conflicts
C12_Witness ==
    /\ Displayed
    /\ \E i, j, k \in 1..Len(filteredSlots) :
          /\ i < k /\ j < k
          /\ filteredSlots[k] = bestSlot[1]
          /\ LowerPercentage(bestSlot[1], filteredSlots[i])
          /\ SamePercentage(bestSlot[1], filteredSlots[j])
          /\ WorkingHoursConflicts(filteredSlots[j]) > WorkingHoursConflicts(bestSlot[1])
          /\ filteredSlots[j].TimeSlot.Start < bestSlot[1].TimeSlot.Start

-----------------------------------------------------------------------------
(* C13: GroupSlotsByConflictLevel puts every slot in exactly one of five bands
   by its conflictPercentage x: no-conflicts iff x = 0, low iff 0 < x <= 25,
   med iff 25 < x <= 50, high iff 50 < x <= 75, very-high iff x > 75; the
   bands together hold each input slot exactly once. *)
AboveZero(m) == m.ConflictPercentage.num > 0

InBand(g, m) ==
    CASE g = "no-conflicts" -> m.ConflictPercentage.num = 0
      [] g = "low-conflicts" -> AboveZero(m) /\ AtMost(m, 25)
      [] g = "med-conflicts" -> ~AtMost(m, 25) /\ AtMost(m, 50)
      [] g = "high-conflicts" -> ~AtMost(m, 50) /\ AtMost(m, 75)
      [] g = "very-high" -> ~AtMost(m, 75)

BandNames ==
    {"no-conflicts", "low-conflicts", "med-conflicts", "high-conflicts", "very-high"}

C13_ConflictBands ==
    Displayed =>
        /\ DOMAIN conflictGroups = BandNames
        /\ \A m \in Range(filteredSlots) :
              /\ Cardinality({g \in BandNames : InBand(g, m)}) = 1
              /\ \A g \in BandNames :
                    Occurrences(conflictGroups[g], m)
                        = IF InBand(g, m) THEN Occurrences(filteredSlots, m) ELSE 0
        /\ \A g \in BandNames : Range(conflictGroups[g]) \subseteq Range(filteredSlots)

\* four bands are in use, with slots at exactly 0%, 25%, 50% and 75%
C13_Witness ==
    /\ Displayed
    /\ conflictGroups["no-conflicts"] # << >>
    /\ \E m \in Range(conflictGroups["low-conflicts"]) :
          m.ConflictPercentage = [num |-> 25, den |-> 1]
    /\ \E m \in Range(conflictGroups["med-conflicts"]) :
          m.ConflictPercentage = [num |-> 50, den |-> 1]
    /\ \E m \in Range(conflictGroups["high-conflicts"]) :
          m.ConflictPercentage = [num |-> 75, den |-> 1]

-----------------------------------------------------------------------------
(* C14: for every slot the working-hours conflict set (OutsideWorkingHours)
   holds only attendees that are available and have a known timezone: it is
   disjoint from the calendar-conflict set, and an attendee without a known
   timezone is never in it, whatever the slot. *)
EmailOf(i) == availabilities[i].Email

AllEmails == {EmailOf(i) : i \in Attendees}

KnownTimezone == {i \in Attendees : availabilities[i].TimeZone # << >>}

C14_WorkingHoursConflictSet ==
    Scanned =>
        \A m \in SlotsProduced :
            /\ m.OutsideWorkingHours
                  \subseteq {EmailOf(i) : i \in FreeAttendees(m) \cap KnownTimezone}
            /\ m.OutsideWorkingHours \cap ConflictSet(m) = {}
            /\ m.OutsideWorkingHours \cap Range(m.UnavailableEmails) = {}
            /\ \A i \in Attendees \ KnownTimezone :
                  EmailOf(i) \notin m.OutsideWorkingHours

\* one slot with an attendee outside working hours, a free attendee without
\* timezone and a busy attendee
C14_Witness ==
    /\ Scanned
    /\ \E m \in Range(meetingSlots) :
          /\ m.OutsideWorkingHours # {}
          /\ \E i \in FreeAttendees(m) : i \notin KnownTimezone
          /\ ConflictSet(m) # {}

-----------------------------------------------------------------------------
(* C15, as stated: for every slot the calendar-conflict set and the
   working-hours-conflict set together cover all attendees of the slot: no
   attendee of available or unavailable is outside both. *)
C15_ConflictSetsCoverAll ==
    Scanned =>
        \A m \in SlotsProduced :
            Range(m.AvailableEmails) \cup Range(m.UnavailableEmails)
                \subseteq Range(m.UnavailableEmails) \cup m.OutsideWorkingHours

(* C15, amended: for every slot the calendar-conflict set and the
   working-hours-conflict set are disjoint sets of attendees, and the
   attendees outside both are exactly the available attendees that are within
   their working hours or have no known timezone. *)
C15_ConflictSetsAndRest ==
    Scanned =>
        \A m \in SlotsProduced :
            /\ Range(m.UnavailableEmails) \cap m.OutsideWorkingHours = {}
            /\ Range(m.UnavailableEmails) \cup m.OutsideWorkingHours \subseteq AllEmails
            /\ AllEmails \ (Range(m.UnavailableEmails) \cup m.OutsideWorkingHours)
                  = {EmailOf(i) : i \in WithinSet(m)}

\* a slot with an attendee in each conflict set and one in neither, and a
\* slot with two attendees in neither, one within working hours and one
\* without timezone
C15_Witness ==
    /\ Scanned
    /\ \E m \in Range(meetingSlots) :
          /\ m.UnavailableEmails # << >>
          /\ m.OutsideWorkingHours # {}
          /\ WithinSet(m) # {}
    /\ \E m \in Range(meetingSlots) :
          /\ \E i \in WithinSet(m) : i \in KnownTimezone
          /\ \E i \in WithinSet(m) : i \notin KnownTimezone

-----------------------------------------------------------------------------
(* C16: the whole pipeline run twice on the same inputs gives the same
   ordered list: the order depends on nothing but the inputs.  Both sorts are
   sort.Slice, which may return any arrangement its less function allows; the
   result is the same whatever arrangement it returns exactly when slots that
   the less function does not order are the same slot, and then each list is
   the one arrangement in strictly ascending order, equal slots side by
   side. *)
\* the ranking cannot tell x from y
RankTie(x, y) == ~Precedes(x, y) /\ ~Precedes(y, x)

C16_OrderDetermined ==
    /\ Scanned =>
          /\ \A x, y \in Range(meetingSlots) : RankTie(x, y) => x = y
          /\ \A i, j \in 1..Len(optimalSlots) :
                i < j => \/ Precedes(optimalSlots[i], optimalSlots[j])
                         \/ optimalSlots[i] = optimalSlots[j]
    /\ Curated =>
          /\ \A x, y \in Range(ShownInRankOrder) :
                x.TimeSlot.Start = y.TimeSlot.Start => x = y
          /\ \A i, j \in 1..Len(filteredSlots) :
                i < j => \/ filteredSlots[i].TimeSlot.Start < filteredSlots[j].TimeSlot.Start
                         \/ filteredSlots[i] = filteredSlots[j]

\* overlapping windows give the same slot twice, slots of equal score and
\* different start are ranked, and the displayed list holds a slot twice
C16_Witness ==
    /\ Curated
    /\ \E i, j \in 1..Len(meetingSlots) : i # j /\ meetingSlots[i] = meetingSlots[j]
    /\ \E x, y \in Range(optimalSlots) :
          ScoreEqual(x, y) /\ x.TimeSlot.Start # y.TimeSlot.Start
    /\ Len(filteredSlots) >= 2
    /\ filteredSlots[1] = filteredSlots[2]

-----------------------------------------------------------------------------
(* C18: when no attendee's availability is reachable, that is when the
   availability list handed to the optimizer is empty, the run ends in the
   explicit empty result ("No suitable meeting times found"), not in a list
   of recommended slots. *)
Finished == pc \in {"empty", "output"}

C18_NoAttendeesEmptyResult ==
    (Finished /\ availabilities = << >>) =>
        /\ pc = "empty"
        /\ filteredSlots = << >>
        /\ bestSlot = << >>

-----------------------------------------------------------------------------
(* C20: a slot's conflict percentage counts both kinds of conflict: an
   attendee who is free in their calendar but for whom the slot is outside
   their working hours counts in conflictPercentage as an attendee with a
   calendar conflict does. *)
C20_BothKindsCounted ==
    Scanned =>
        \A m \in SlotsProduced :
            Len(availabilities) > 0 =>
                IsFraction(m.ConflictPercentage,
                           100 * (Cardinality(ConflictSet(m))
                                    + Cardinality(m.OutsideWorkingHours)),
                           Len(availabilities))

-----------------------------------------------------------------------------
(* C17: an invalid configuration (a meeting duration that is not positive, an
   end date before the start date, or working hours that do not satisfy
   0 <= startHour < endHour <= 24) is rejected before any window is generated
   or slot scanned: for such input the run generates no window and no slot
   and outputs no result. *)
InvalidConfiguration ==
    \/ pc # "start" /\ ~ValidHours
    \/ pc # "start" /\ endTime < startTime
    \/ Scanned /\ meetingDuration <= 0

C17_InvalidConfigurationRejected ==
    InvalidConfiguration =>
        /\ potentialSlots = << >>
        /\ meetingSlots = << >>
        /\ ~Finished

-----------------------------------------------------------------------------
(* C19, as stated: GetBusyTimesWithBatching fetches the requested emails in
   consecutive batches of at most batchSize each; a batch whose fetch fails is
   skipped while every batch that succeeds still contributes its
   availabilities, and the list returned holds each email of a successful
   batch at most once. *)
Returned == pc = "returned"

RECURSIVE BatchesJoined(_)
BatchesJoined(k) == IF k = 0 THEN << >> ELSE BatchesJoined(k - 1) \o fetched[k].batch

ConsecutiveBatches ==
    /\ BatchesJoined(Len(fetched)) = emails
    /\ \A k \in 1..Len(fetched) : Len(fetched[k].batch) <= batchSize

Answered == UNION {Range(fetched[k].calendars) : k \in {j \in 1..Len(fetched) : fetched[j].ok}}

FailedBatchesSkipped ==
    /\ ~err
    /\ Range(allAvailabilities) = Answered
    /\ \A e \in Answered : Occurrences(allAvailabilities, e) = 1

C19_FailedBatchSkipped ==
    Returned => ConsecutiveBatches /\ FailedBatchesSkipped

(* C19, amended: GetBusyTimesWithBatching fetches the requested emails in
   consecutive batches of at most batchSize each; when the emails need more
   than one batch, a batch whose fetch fails is skipped while every batch that
   succeeds still contributes its availabilities, and the list returned holds
   each email of a successful batch exactly once; when the emails fit in one
   batch, the failure of its fetch is returned as the call's error. *)
C19_FailedBatchSkippedAmongSeveral ==
    Returned =>
        /\ ConsecutiveBatches
        /\ Len(emails) > batchSize => FailedBatchesSkipped
        /\ Len(emails) <= batchSize =>
              /\ Len(fetched) = 1
              /\ fetched[1].ok => FailedBatchesSkipped
              /\ ~fetched[1].ok => err /\ allAvailabilities = << >>

\* three batches: the first succeeds, the second fails, the third succeeds
\* and answers again for an email of the first
C19_Witness ==
    /\ Returned
    /\ Len(fetched) = 3
    /\ fetched[1].ok /\ ~fetched[2].ok /\ fetched[3].ok
    /\ Range(fetched[1].calendars) \cap Range(fetched[3].calendars) # {}
    /\ Len(fetched[1].batch) = batchSize
    /\ Range(fetched[2].batch) \ Range(allAvailabilities) # {}

-----------------------------------------------------------------------------
(* C26: in a scan over the windows GetWorkingHours produces for a
   configuration with 0 <= startHour < endHour <= 24, whatever the lunch
   hours, no two scanned slots start at the same instant, so the ranking
   comparator (composite score, then start time) orders any two scanned
   slots strictly one way. *)
C26_StartsUniquePerScan ==
    (Scanned /\ ValidHours) =>
        \A i, j \in 1..Len(meetingSlots) :
            i # j =>
                /\ meetingSlots[i].TimeSlot.Start # meetingSlots[j].TimeSlot.Start
                /\ Precedes(meetingSlots[i], meetingSlots[j])
                      \/ Precedes(meetingSlots[j], meetingSlots[i])

-----------------------------------------------------------------------------
(* C27: the displayed list holds min(max_slots, number of scanned slots whose
   conflictPercentage is at most the max-conflicts ceiling) slots; in
   particular exactly max_slots slots when that many scanned slots are within
   the ceiling.  The ranking's cut at 3 * max_slots comes before the filter. *)
WithinCeiling == {i \in 1..Len(meetingSlots) : AtMost(meetingSlots[i], maxConflicts)}

C27_DisplayedCount ==
    Curated => Len(filteredSlots) = Min(max_slots, Cardinality(WithinCeiling))

-----------------------------------------------------------------------------
(* C29: window generation and the working-hours check agree: with
   0 <= startHour < endHour <= 24 and lunchStartHour <= lunchEndHour, either
   weekend setting, every slot scanned from the generated windows is within
   working hours for an attendee whose timezone is the reference timezone. *)
ReferenceZone == <<0>>

C29_WindowsAgreeWithCheck ==
    (Scanned /\ ValidHours /\ cfg.LunchStartHour <= cfg.LunchEndHour) =>
        \A m \in SlotsProduced : \A i \in FreeAttendees(m) :
            availabilities[i].TimeZone = ReferenceZone =>
                availabilities[i].Email \notin m.OutsideWorkingHours

-----------------------------------------------------------------------------
(* C28: when no attendee has a known timezone, FindOptimalMeetingSlots and
   findOptimalMeetingSlotsLegacy, given the same availabilities, windows,
   duration and maxSlots, return the same slots in the same order: the same
   number of slots and, at each position, the same interval with the same
   unavailable and available attendees and the same conflict percentage. *)
Compared == pc = "compared"

NoKnownTimezone == \A i \in Attendees : availabilities[i].TimeZone = << >>

SameSlot(x, y) ==
    /\ x.TimeSlot = y.TimeSlot
    /\ x.UnavailableCount = y.UnavailableCount
    /\ x.UnavailableEmails = y.UnavailableEmails
    /\ x.AvailableEmails = y.AvailableEmails
    /\ x.ConflictPercentage = y.ConflictPercentage

C28_LegacyAgreesWithoutTimezones ==
    (Compared /\ NoKnownTimezone) =>
        /\ Len(optimalSlots) = Len(legacySlots)
        /\ \A k \in 1..Len(optimalSlots) : SameSlot(optimalSlots[k], legacySlots[k])

\* several attendees without timezone, slots with different numbers of
\* conflicts among those returned, a later slot ranked before an earlier one,
\* and slots cut off by maxSlots
C28_Witness ==
    /\ Compared
    /\ NoKnownTimezone
    /\ Len(availabilities) >= 2
    /\ Len(meetingSlots) > maxSlots
    /\ \E j, k \in 1..Len(legacySlots) :
          /\ j < k
          /\ legacySlots[j].UnavailableCount < legacySlots[k].UnavailableCount
          /\ legacySlots[j].TimeSlot.Start > legacySlots[k].TimeSlot.Start

-----------------------------------------------------------------------------
(* C30: every UserAvailability getBusyTimesBatch returns has a timezone: an
   attendee whose calendar timezone could not be fetched has UTC, so in the
   run that fetches its availabilities no attendee is without timezone when
   the slots are scanned, and such an attendee, free at a slot that is not
   within working hours in UTC, is recorded as outside working hours. *)
AvailabilitiesFetched == pc \in {"fetched", "windows", "ranked"}

NoTimezoneFetched == {i \in Attendees : availabilities[i].Email \in timezoneFailed}

C30_FetchedTimezoneNeverNil ==
    AvailabilitiesFetched =>
        /\ \A i \in Attendees : availabilities[i].TimeZone # << >>
        /\ \A i \in NoTimezoneFetched : availabilities[i].TimeZone = <<0 - location>>
        /\ Scanned =>
              \A m \in SlotsProduced : \A i \in FreeAttendees(m) \cap NoTimezoneFetched :
                  ~WithinWorkingHoursAsStated(m.TimeSlot.Start, m.TimeSlot.End, 0 - location)
                      => availabilities[i].Email \in m.OutsideWorkingHours

\* the reference timezone is not UTC, and an attendee whose timezone could
\* not be fetched is free at two scanned slots, one outside working hours in
\* UTC and one within
C30_Witness ==
    /\ Scanned
    /\ location # 0
    /\ \E i \in NoTimezoneFetched : \E m, n \in SlotsProduced :
          /\ i \in FreeAttendees(m) \cap FreeAttendees(n)
          /\ availabilities[i].Email \in m.OutsideWorkingHours
          /\ availabilities[i].Email \notin n.OutsideWorkingHours

-----------------------------------------------------------------------------
(* C24: lookupRegion resolves the region from the email override first, then
   the timezone cache, then the embedded table, then an HTTP lookup, and makes
   no HTTP request when an earlier source answers; for an email without
   override and the timezone Europe/Paris it returns FR, the table's code,
   without any HTTP request. *)
LookupsMade == 1..Len(lookups)

\* the overrides hold an entry for the email, whatever its case
OverrideFor(email) == {key \in DOMAIN regionOverrides : key.text = email.text}

HasOverride(k) == OverrideFor(lookups[k].email) # {}
InCache(k) == lookups[k].timezone \in DOMAIN lookups[k].cacheBefore
InTable(k) == lookups[k].timezone \in DOMAIN timezoneToRegions

Answers(k, code) ==
    /\ lookups[k].code = code
    /\ lookups[k].requests = 0
    /\ ~lookups[k].err

C24_RegionSourcesInOrder ==
    \A k \in LookupsMade :
        /\ HasOverride(k) =>
              \A key \in OverrideFor(lookups[k].email) : Answers(k, regionOverrides[key])
        /\ (~HasOverride(k) /\ InCache(k)) =>
              Answers(k, lookups[k].cacheBefore[lookups[k].timezone])
        /\ (~HasOverride(k) /\ ~InCache(k) /\ InTable(k)) =>
              Answers(k, timezoneToRegions[lookups[k].timezone][1])
        /\ lookups[k].requests <= 1
        /\ (~HasOverride(k) /\ lookups[k].timezone = "Europe/Paris") =>
              Answers(k, [text |-> "fr", case |-> "upper", padded |-> FALSE])

\* Europe/Paris answered from the table for an email without override, then
\* from the cache for another such email
C24_Witness ==
    /\ Len(lookups) = 2
    /\ regionOverrides # << >>
    /\ ~HasOverride(1) /\ ~InCache(1) /\ lookups[1].timezone = "Europe/Paris"
    /\ lookups[1].code.text = "fr" /\ lookups[1].requests = 0
    /\ ~HasOverride(2) /\ InCache(2) /\ lookups[2].timezone = "Europe/Paris"
    /\ lookups[2].code.text = "fr" /\ lookups[2].requests = 0
    /\ lookups[1].email # lookups[2].email

-----------------------------------------------------------------------------
(* C25, as stated: for a timezone found in neither the overrides, the cache
   nor the embedded table, one call of lookupRegion makes exactly one HTTP
   request; when the request is answered 404 Not Found, lookupRegion returns
   an empty region code and no error. *)
NoEarlierSource(k) == ~HasOverride(k) /\ ~InCache(k) /\ ~InTable(k)

AnsweredNotFound(k) ==
    lookups[k].answer # << >> /\ lookups[k].answer[1].status = 404

EmptyCodeNoError(k) == lookups[k].code.text = "" /\ ~lookups[k].err

C25_OneRequestPerLookup ==
    \A k \in LookupsMade :
        NoEarlierSource(k) =>
            /\ lookups[k].requests = 1
            /\ AnsweredNotFound(k) => EmptyCodeNoError(k)

(* C25, amended: for a timezone with a non-empty name found in neither the
   overrides, the cache nor the embedded table, one call of lookupRegion makes
   exactly one HTTP request, and when that request is answered 404 Not Found
   lookupRegion returns an empty region code and no error; for a timezone
   whose name is empty it makes no request and returns an empty region code
   and no error. *)
C25_OneRequestPerNamedTimezone ==
    \A k \in LookupsMade :
        NoEarlierSource(k) =>
            /\ lookups[k].timezone # "" =>
                  /\ lookups[k].requests = 1
                  /\ AnsweredNotFound(k) => EmptyCodeNoError(k)
            /\ lookups[k].timezone = "" =>
                  lookups[k].requests = 0 /\ EmptyCodeNoError(k)

\* the same unknown timezone looked up twice, answered 404 both times: one
\* request each time, nothing cached in between
C25_Witness ==
    /\ Len(lookups) = 2
    /\ lookups[1].timezone = "Custom/Zone" /\ lookups[2].timezone = "Custom/Zone"
    /\ NoEarlierSource(1) /\ NoEarlierSource(2)
    /\ AnsweredNotFound(1) /\ AnsweredNotFound(2)
    /\ lookups[1].requests = 1 /\ lookups[2].requests = 1
    /\ EmptyCodeNoError(1) /\ EmptyCodeNoError(2)

\* ------------------------------------------------------------------------
\* mailing lists
\* ------------------------------------------------------------------------

\* two addresses that name the same mailbox: equal once the white space
\* around them is dropped and their letters are lower-cased
SameAddress(a, b) == a.text = b.text

\* the Members.List calls of the current top-level resolution
RequestsMade == 1..Len(requests)
SameExpansion(j, k) ==
    /\ SameAddress(requests[j].groupEmail, requests[k].groupEmail)
    /\ requests[j].page = requests[k].page
ExpandedAtMostOnce == \A j, k \in RequestsMade : j # k => ~SameExpansion(j, k)

(* C21: on a finite group graph, also one where a group holds itself directly
   or through other groups, getGroupMembersRecursive terminates, and within
   one top-level resolution no page of a group's member list is asked for
   twice. *)
C21_TerminatesExpandingOnce ==
    /\ [](ExpandedAtMostOnce)
    /\ (pc = "expanding") ~> (pc = "resolving")

\* team and eng hold each other: team was resolved, each list asked for
\* once, and the way back to team was noted as a circular reference
C21_Witness ==
    /\ pc = "resolving" /\ listIndex > 1
    /\ directory = CyclicDirectory
    /\ resolutionErr = << >>
    /\ Len(requests) = 2
    /\ \E g \in DOMAIN ctx.circularRefs : g.text = "team"
    /\ {m.text : m \in mapValues(ctx.memberEmails)} = {"alice", "bob"}

\* a top-level resolution has returned and its context is still at hand
ResolutionReturned == pc \in {"resolving", "attendees", "fatal"} /\ listIndex > 1
ReturnedMembers == IF resolutionErr = << >> THEN mapValues(ctx.memberEmails) ELSE {}

\* the Members.List calls that failed for a nested group, and for the list
\* being resolved itself
NestedFailures == {k \in RequestsMade : requests[k].err # << >> /\ requests[k].depth > 0}
OwnFailures == {k \in RequestsMade : requests[k].err # << >> /\ requests[k].depth = 0}
FailureOf(k) == requests[k].err[1]

\* the failed nested group is kept as an address, or noted as failed
KeptAsAddress(k) == \E m \in mapValues(ctx.memberEmails) : SameAddress(m, FailureOf(k).Email)
NotedAsFailed(k) == FailureOf(k).Email \in DOMAIN ctx.failedGroups /\ ctx.hasPartialFailure
FailureRecorded(k) ==
    IF FailureOf(k).ErrorType \in {"not_found", "bad_request"}
    THEN KeptAsAddress(k)
    ELSE NotedAsFailed(k)

\* the entries of an answered page, as the directory holds them
PageOf(k) == directory[requests[k].groupEmail.text][requests[k].page]
PageAnswered(k) == requests[k].err = << >>
Entries(k) == {PageOf(k)[i] : i \in 1..Len(PageOf(k))} \ {<< >>}
NamedEntries(k) == {m \in Entries(k) : m.Email.text # ""}
IsGroupEntry(m) == m.Type.text \in {"group", "customer", ""}

\* every entry of every answered page was dealt with: an address is among the
\* members returned, a nested group was expanded or met on the way
EntryReturned(m) == \E r \in ReturnedMembers : SameAddress(r, m.Email)
EntryExpanded(m) == \E g \in ctx.visitedGroups : SameAddress(g, m.Email)
AllEntriesDealtWith ==
    \A k \in RequestsMade :
        PageAnswered(k) =>
            /\ \A m \in NamedEntries(k) :
                  IF IsGroupEntry(m)
                  THEN EntryExpanded(m) \/ EntryReturned(m)
                  ELSE EntryReturned(m)
            /\ requests[k].page < Len(directory[requests[k].groupEmail.text]) =>
                  \E j \in RequestsMade :
                      /\ SameAddress(requests[j].groupEmail, requests[k].groupEmail)
                      /\ requests[j].page = requests[k].page + 1

(* C22: a nested group whose expansion fails does not abort the resolution of
   the enclosing group: getGroupMembers returns an error only when a
   Members.List call for the list itself failed; otherwise every user entry
   of every answered page is among the members returned and every other
   nested group was expanded; and the failed nested group is in failedGroups
   with hasPartialFailure set, or, when the error is not_found or
   bad_request, is kept among the members as an address. *)
C22_NestedFailureNotFatal ==
    /\ \A k \in NestedFailures : FailureRecorded(k)
    /\ ResolutionReturned =>
          /\ resolutionErr # << >> <=> OwnFailures # {}
          /\ resolutionErr = << >> => AllEntriesDealtWith

\* team of the diamond: eng failed with 403 and is noted as failed, ops came
\* after it and was still expanded, and its members and alice are returned
C22_Witness ==
    /\ ResolutionReturned /\ resolutionErr = << >>
    /\ directory = DiamondDirectory
    /\ \E k \in NestedFailures :
          /\ FailureOf(k).Email.text = "eng"
          /\ FailureOf(k).ErrorType = "permission_denied"
          /\ NotedAsFailed(k)
    /\ {m.text : m \in ReturnedMembers} = {"alice", "bob"}
    /\ \E g \in ctx.visitedGroups : g.text = "core"

\* the attendees handed to the calendar fetch (root.go 333)
AttendeesReady == pc = "attendees"
AttendeePositions == 1..Len(emailList)

(* C23: the attendee list handed to the calendar fetch, the --emails
   addresses and the resolved members of the mailing lists, holds no two
   addresses that are equal once trimmed and lower-cased. *)
C23_NoDuplicateAttendees ==
    AttendeesReady =>
        \A i, j \in AttendeePositions : i # j => ~SameAddress(emailList[i], emailList[j])

====
